---- MODULE Spec2Model ----
(***************************************************************************)
(* A model of the Slack automation bot of src/app.py: the in-memory        *)
(* automation_store, the Bolt listeners that mutate it, the block builders *)
(* of src/block_kit_components.py, and the two scheduled jobs.             *)
(*                                                                         *)
(* Every listener invocation and every job run executes on a thread of a   *)
(* pool (Bolt hands a listener to its executor, APScheduler runs a job on  *)
(* its own), so an invocation is a small process: it occupies a thread,    *)
(* carries the payload it was dispatched with, and advances one statement  *)
(* group at a time.  Steps of different threads interleave freely.         *)
(***************************************************************************)
EXTENDS Naturals, Sequences, FiniteSets, TLC

VARIABLES
    tasks,       \* automation_store["tasks"]
    workflows,   \* automation_store["workflows"]
    approvals,   \* automation_store["approvals"]
    now,         \* the value datetime.now() returns
    inv,         \* per thread: the listener or job invocation it is running
    environ,     \* os.environ, as the process was started with it
    started,     \* history: number of invocations dispatched so far
    last_write,  \* history: per approval, the listener that last assigned
                 \* its status ("none" while only its creation has)
    undisturbed  \* history: per thread, whether it runs a scheduled job
                 \* and no statement has written the store since the job
                 \* started

vars == <<tasks, workflows, approvals, now, inv, environ, started, last_write,
         undisturbed>>
store == <<tasks, workflows, approvals>>
history == <<started, last_write, undisturbed>>

----------------------------------------------------------------------------
(* Bounds of the model. *)

MaxClock == 1        \* the clock takes the values 0..MaxClock
MaxApprovals == 2    \* approvals created in one behaviour
MaxTasks == 2        \* tasks created in one behaviour of the router
MaxPending == 6      \* tasks created in one behaviour of the reminder
MaxReminders == 1    \* runs of the reminder in one behaviour
MaxInvocations == 4  \* invocations dispatched in one behaviour
MaxRouted == 3       \* invocations dispatched in one behaviour of the router
MaxMessages == 3     \* message events received in one behaviour
MaxScheduled == 4    \* dispatches after which the scheduler fires no run
MaxJobTasks == 2     \* tasks created next to the scheduled jobs
MaxSteps == 2        \* steps of a workflow handed to the builder

Threads == {"th1", "th2"}
Users == {"U1", "U2"}
Channels == {"C1"}
MessageTs == {"m1"}
Triggers == {"trig1"}

----------------------------------------------------------------------------
(* Python values: a dict is a function on its string keys, None is a      *)
(* sentinel, a str is an opaque token or, for an f-string, the tuple of   *)
(* its literal and interpolated parts (an emoji is written as a bracketed *)
(* name where it decides something and left out elsewhere, and so are the *)
(* markdown code quotes of the literals).  A str that is searched is the  *)
(* tuple of its characters.                                               *)

PyNone == "<None>"
\* None where a dict is expected
PyNoneDict == [none |-> TRUE]
EmptyDict == [k \in {} |-> 0]
\* d.get(k, default)
Get(d, k, default) == IF k \in DOMAIN d THEN d[k] ELSE default
\* d[k] = v
Put(d, k, v) == [j \in (DOMAIN d) \cup {k} |-> IF j = k THEN v ELSE d[j]]
\* if v: for a str or None argument
Truthy(v) == v # PyNone /\ v # ""
\* if v: for a dict or None argument
TruthyDict(v) == v # PyNoneDict /\ v # EmptyDict

----------------------------------------------------------------------------
(* The characters of a str.  A character is a string of one character; a   *)
(* character that a string of this module cannot hold is written as the    *)
(* token of its code point, "<U+0130>", and every character outside ASCII  *)
(* may be written so.  The three tables below are those of the Unicode     *)
(* database the interpreter carries (14.0.0), as str.lower() uses them.   *)

\* <<c, c.lower()>> for every character that str.lower() changes (the
\* capital sigma aside), under each way c is written; c.lower() is the
\* tuple of its characters, each written as itself where a string can hold
\* it and as its token otherwise
LowerPairs ==
    {
      <<"A", <<"a">>>>, <<"B", <<"b">>>>, <<"C", <<"c">>>>,
      <<"D", <<"d">>>>, <<"E", <<"e">>>>, <<"F", <<"f">>>>,
      <<"G", <<"g">>>>, <<"H", <<"h">>>>, <<"I", <<"i">>>>,
      <<"J", <<"j">>>>, <<"K", <<"k">>>>, <<"L", <<"l">>>>,
      <<"M", <<"m">>>>, <<"N", <<"n">>>>, <<"O", <<"o">>>>,
      <<"P", <<"p">>>>, <<"Q", <<"q">>>>, <<"R", <<"r">>>>,
      <<"S", <<"s">>>>, <<"T", <<"t">>>>, <<"U", <<"u">>>>,
      <<"V", <<"v">>>>, <<"W", <<"w">>>>, <<"X", <<"x">>>>,
      <<"Y", <<"y">>>>, <<"Z", <<"z">>>>, <<"<U+00C0>", <<"<U+00E0>">>>>,
      <<"À", <<"à">>>>, <<"<U+00C1>", <<"<U+00E1>">>>>, <<"Á", <<"á">>>>,
      <<"<U+00C2>", <<"<U+00E2>">>>>, <<"Â", <<"â">>>>,
      <<"<U+00C3>", <<"<U+00E3>">>>>, <<"Ã", <<"ã">>>>,
      <<"<U+00C4>", <<"<U+00E4>">>>>, <<"Ä", <<"ä">>>>,
      <<"<U+00C5>", <<"<U+00E5>">>>>, <<"Å", <<"å">>>>,
      <<"<U+00C6>", <<"<U+00E6>">>>>, <<"Æ", <<"æ">>>>,
      <<"<U+00C7>", <<"<U+00E7>">>>>, <<"Ç", <<"ç">>>>,
      <<"<U+00C8>", <<"<U+00E8>">>>>, <<"È", <<"è">>>>,
      <<"<U+00C9>", <<"<U+00E9>">>>>, <<"É", <<"é">>>>,
      <<"<U+00CA>", <<"<U+00EA>">>>>, <<"Ê", <<"ê">>>>,
      <<"<U+00CB>", <<"<U+00EB>">>>>, <<"Ë", <<"ë">>>>,
      <<"<U+00CC>", <<"<U+00EC>">>>>, <<"Ì", <<"ì">>>>,
      <<"<U+00CD>", <<"<U+00ED>">>>>, <<"Í", <<"í">>>>,
      <<"<U+00CE>", <<"<U+00EE>">>>>, <<"Î", <<"î">>>>,
      <<"<U+00CF>", <<"<U+00EF>">>>>, <<"Ï", <<"ï">>>>,
      <<"<U+00D0>", <<"<U+00F0>">>>>, <<"Ð", <<"ð">>>>,
      <<"<U+00D1>", <<"<U+00F1>">>>>, <<"Ñ", <<"ñ">>>>,
      <<"<U+00D2>", <<"<U+00F2>">>>>, <<"Ò", <<"ò">>>>,
      <<"<U+00D3>", <<"<U+00F3>">>>>, <<"Ó", <<"ó">>>>,
      <<"<U+00D4>", <<"<U+00F4>">>>>, <<"Ô", <<"ô">>>>,
      <<"<U+00D5>", <<"<U+00F5>">>>>, <<"Õ", <<"õ">>>>,
      <<"<U+00D6>", <<"<U+00F6>">>>>, <<"Ö", <<"ö">>>>,
      <<"<U+00D8>", <<"<U+00F8>">>>>, <<"Ø", <<"ø">>>>,
      <<"<U+00D9>", <<"<U+00F9>">>>>, <<"Ù", <<"ù">>>>,
      <<"<U+00DA>", <<"<U+00FA>">>>>, <<"Ú", <<"ú">>>>,
      <<"<U+00DB>", <<"<U+00FB>">>>>, <<"Û", <<"û">>>>,
      <<"<U+00DC>", <<"<U+00FC>">>>>, <<"Ü", <<"ü">>>>,
      <<"<U+00DD>", <<"<U+00FD>">>>>, <<"Ý", <<"ý">>>>,
      <<"<U+00DE>", <<"<U+00FE>">>>>, <<"Þ", <<"þ">>>>,
      <<"<U+0100>", <<"<U+0101>">>>>, <<"<U+0102>", <<"<U+0103>">>>>,
      <<"<U+0104>", <<"<U+0105>">>>>, <<"<U+0106>", <<"<U+0107>">>>>,
      <<"<U+0108>", <<"<U+0109>">>>>, <<"<U+010A>", <<"<U+010B>">>>>,
      <<"<U+010C>", <<"<U+010D>">>>>, <<"<U+010E>", <<"<U+010F>">>>>,
      <<"<U+0110>", <<"<U+0111>">>>>, <<"<U+0112>", <<"<U+0113>">>>>,
      <<"<U+0114>", <<"<U+0115>">>>>, <<"<U+0116>", <<"<U+0117>">>>>,
      <<"<U+0118>", <<"<U+0119>">>>>, <<"<U+011A>", <<"<U+011B>">>>>,
      <<"<U+011C>", <<"<U+011D>">>>>, <<"<U+011E>", <<"<U+011F>">>>>,
      <<"<U+0120>", <<"<U+0121>">>>>, <<"<U+0122>", <<"<U+0123>">>>>,
      <<"<U+0124>", <<"<U+0125>">>>>, <<"<U+0126>", <<"<U+0127>">>>>,
      <<"<U+0128>", <<"<U+0129>">>>>, <<"<U+012A>", <<"<U+012B>">>>>,
      <<"<U+012C>", <<"<U+012D>">>>>, <<"<U+012E>", <<"<U+012F>">>>>,
      <<"<U+0130>", <<"i", "<U+0307>">>>>, <<"<U+0132>", <<"<U+0133>">>>>,
      <<"<U+0134>", <<"<U+0135>">>>>, <<"<U+0136>", <<"<U+0137>">>>>,
      <<"<U+0139>", <<"<U+013A>">>>>, <<"<U+013B>", <<"<U+013C>">>>>,
      <<"<U+013D>", <<"<U+013E>">>>>, <<"<U+013F>", <<"<U+0140>">>>>,
      <<"<U+0141>", <<"<U+0142>">>>>, <<"<U+0143>", <<"<U+0144>">>>>,
      <<"<U+0145>", <<"<U+0146>">>>>, <<"<U+0147>", <<"<U+0148>">>>>,
      <<"<U+014A>", <<"<U+014B>">>>>, <<"<U+014C>", <<"<U+014D>">>>>,
      <<"<U+014E>", <<"<U+014F>">>>>, <<"<U+0150>", <<"<U+0151>">>>>,
      <<"<U+0152>", <<"<U+0153>">>>>, <<"<U+0154>", <<"<U+0155>">>>>,
      <<"<U+0156>", <<"<U+0157>">>>>, <<"<U+0158>", <<"<U+0159>">>>>,
      <<"<U+015A>", <<"<U+015B>">>>>, <<"<U+015C>", <<"<U+015D>">>>>,
      <<"<U+015E>", <<"<U+015F>">>>>, <<"<U+0160>", <<"<U+0161>">>>>,
      <<"<U+0162>", <<"<U+0163>">>>>, <<"<U+0164>", <<"<U+0165>">>>>,
      <<"<U+0166>", <<"<U+0167>">>>>, <<"<U+0168>", <<"<U+0169>">>>>,
      <<"<U+016A>", <<"<U+016B>">>>>, <<"<U+016C>", <<"<U+016D>">>>>,
      <<"<U+016E>", <<"<U+016F>">>>>, <<"<U+0170>", <<"<U+0171>">>>>,
      <<"<U+0172>", <<"<U+0173>">>>>, <<"<U+0174>", <<"<U+0175>">>>>,
      <<"<U+0176>", <<"<U+0177>">>>>, <<"<U+0178>", <<"<U+00FF>">>>>,
      <<"<U+0179>", <<"<U+017A>">>>>, <<"<U+017B>", <<"<U+017C>">>>>,
      <<"<U+017D>", <<"<U+017E>">>>>, <<"<U+0181>", <<"<U+0253>">>>>,
      <<"Ɓ", <<"<U+0253>">>>>, <<"<U+0182>", <<"<U+0183>">>>>,
      <<"Ƃ", <<"ƃ">>>>, <<"<U+0184>", <<"<U+0185>">>>>, <<"Ƅ", <<"ƅ">>>>,
      <<"<U+0186>", <<"<U+0254>">>>>, <<"Ɔ", <<"<U+0254>">>>>,
      <<"<U+0187>", <<"<U+0188>">>>>, <<"Ƈ", <<"ƈ">>>>,
      <<"<U+0189>", <<"<U+0256>">>>>, <<"Ɖ", <<"<U+0256>">>>>,
      <<"<U+018A>", <<"<U+0257>">>>>, <<"Ɗ", <<"<U+0257>">>>>,
      <<"<U+018B>", <<"<U+018C>">>>>, <<"Ƌ", <<"ƌ">>>>,
      <<"<U+018E>", <<"<U+01DD>">>>>, <<"Ǝ", <<"ǝ">>>>,
      <<"<U+018F>", <<"<U+0259>">>>>, <<"Ə", <<"<U+0259>">>>>,
      <<"<U+0190>", <<"<U+025B>">>>>, <<"Ɛ", <<"<U+025B>">>>>,
      <<"<U+0191>", <<"<U+0192>">>>>, <<"Ƒ", <<"ƒ">>>>,
      <<"<U+0193>", <<"<U+0260>">>>>, <<"Ɠ", <<"<U+0260>">>>>,
      <<"<U+0194>", <<"<U+0263>">>>>, <<"Ɣ", <<"<U+0263>">>>>,
      <<"<U+0196>", <<"<U+0269>">>>>, <<"Ɩ", <<"<U+0269>">>>>,
      <<"<U+0197>", <<"<U+0268>">>>>, <<"Ɨ", <<"<U+0268>">>>>,
      <<"<U+0198>", <<"<U+0199>">>>>, <<"Ƙ", <<"ƙ">>>>,
      <<"<U+019C>", <<"<U+026F>">>>>, <<"Ɯ", <<"<U+026F>">>>>,
      <<"<U+019D>", <<"<U+0272>">>>>, <<"Ɲ", <<"<U+0272>">>>>,
      <<"<U+019F>", <<"<U+0275>">>>>, <<"Ɵ", <<"<U+0275>">>>>,
      <<"<U+01A0>", <<"<U+01A1>">>>>, <<"Ơ", <<"ơ">>>>,
      <<"<U+01A2>", <<"<U+01A3>">>>>, <<"Ƣ", <<"ƣ">>>>,
      <<"<U+01A4>", <<"<U+01A5>">>>>, <<"Ƥ", <<"ƥ">>>>,
      <<"<U+01A6>", <<"<U+0280>">>>>, <<"Ʀ", <<"ʀ">>>>,
      <<"<U+01A7>", <<"<U+01A8>">>>>, <<"Ƨ", <<"ƨ">>>>,
      <<"<U+01A9>", <<"<U+0283>">>>>, <<"Ʃ", <<"ʃ">>>>,
      <<"<U+01AC>", <<"<U+01AD>">>>>, <<"Ƭ", <<"ƭ">>>>,
      <<"<U+01AE>", <<"<U+0288>">>>>, <<"Ʈ", <<"ʈ">>>>,
      <<"<U+01AF>", <<"<U+01B0>">>>>, <<"Ư", <<"ư">>>>,
      <<"<U+01B1>", <<"<U+028A>">>>>, <<"Ʊ", <<"ʊ">>>>,
      <<"<U+01B2>", <<"<U+028B>">>>>, <<"Ʋ", <<"ʋ">>>>,
      <<"<U+01B3>", <<"<U+01B4>">>>>, <<"Ƴ", <<"ƴ">>>>,
      <<"<U+01B5>", <<"<U+01B6>">>>>, <<"Ƶ", <<"ƶ">>>>,
      <<"<U+01B7>", <<"<U+0292>">>>>, <<"Ʒ", <<"ʒ">>>>,
      <<"<U+01B8>", <<"<U+01B9>">>>>, <<"Ƹ", <<"ƹ">>>>,
      <<"<U+01BC>", <<"<U+01BD>">>>>, <<"Ƽ", <<"ƽ">>>>,
      <<"<U+01C4>", <<"<U+01C6>">>>>, <<"Ǆ", <<"ǆ">>>>,
      <<"<U+01C5>", <<"<U+01C6>">>>>, <<"ǅ", <<"ǆ">>>>,
      <<"<U+01C7>", <<"<U+01C9>">>>>, <<"Ǉ", <<"ǉ">>>>,
      <<"<U+01C8>", <<"<U+01C9>">>>>, <<"ǈ", <<"ǉ">>>>,
      <<"<U+01CA>", <<"<U+01CC>">>>>, <<"Ǌ", <<"ǌ">>>>,
      <<"<U+01CB>", <<"<U+01CC>">>>>, <<"ǋ", <<"ǌ">>>>,
      <<"<U+01CD>", <<"<U+01CE>">>>>, <<"Ǎ", <<"ǎ">>>>,
      <<"<U+01CF>", <<"<U+01D0>">>>>, <<"Ǐ", <<"ǐ">>>>,
      <<"<U+01D1>", <<"<U+01D2>">>>>, <<"Ǒ", <<"ǒ">>>>,
      <<"<U+01D3>", <<"<U+01D4>">>>>, <<"Ǔ", <<"ǔ">>>>,
      <<"<U+01D5>", <<"<U+01D6>">>>>, <<"Ǖ", <<"ǖ">>>>,
      <<"<U+01D7>", <<"<U+01D8>">>>>, <<"Ǘ", <<"ǘ">>>>,
      <<"<U+01D9>", <<"<U+01DA>">>>>, <<"Ǚ", <<"ǚ">>>>,
      <<"<U+01DB>", <<"<U+01DC>">>>>, <<"Ǜ", <<"ǜ">>>>,
      <<"<U+01DE>", <<"<U+01DF>">>>>, <<"Ǟ", <<"ǟ">>>>,
      <<"<U+01E0>", <<"<U+01E1>">>>>, <<"Ǡ", <<"ǡ">>>>,
      <<"<U+01E2>", <<"<U+01E3>">>>>, <<"Ǣ", <<"ǣ">>>>,
      <<"<U+01E4>", <<"<U+01E5>">>>>, <<"Ǥ", <<"ǥ">>>>,
      <<"<U+01E6>", <<"<U+01E7>">>>>, <<"Ǧ", <<"ǧ">>>>,
      <<"<U+01E8>", <<"<U+01E9>">>>>, <<"Ǩ", <<"ǩ">>>>,
      <<"<U+01EA>", <<"<U+01EB>">>>>, <<"Ǫ", <<"ǫ">>>>,
      <<"<U+01EC>", <<"<U+01ED>">>>>, <<"Ǭ", <<"ǭ">>>>,
      <<"<U+01EE>", <<"<U+01EF>">>>>, <<"Ǯ", <<"ǯ">>>>,
      <<"<U+01F1>", <<"<U+01F3>">>>>, <<"Ǳ", <<"ǳ">>>>,
      <<"<U+01F2>", <<"<U+01F3>">>>>, <<"ǲ", <<"ǳ">>>>,
      <<"<U+01F4>", <<"<U+01F5>">>>>, <<"Ǵ", <<"ǵ">>>>,
      <<"<U+01F6>", <<"<U+0195>">>>>, <<"Ƕ", <<"ƕ">>>>,
      <<"<U+01F7>", <<"<U+01BF>">>>>, <<"Ƿ", <<"ƿ">>>>,
      <<"<U+01F8>", <<"<U+01F9>">>>>, <<"Ǹ", <<"ǹ">>>>,
      <<"<U+01FA>", <<"<U+01FB>">>>>, <<"Ǻ", <<"ǻ">>>>,
      <<"<U+01FC>", <<"<U+01FD>">>>>, <<"Ǽ", <<"ǽ">>>>,
      <<"<U+01FE>", <<"<U+01FF>">>>>, <<"Ǿ", <<"ǿ">>>>,
      <<"<U+0200>", <<"<U+0201>">>>>, <<"<U+0202>", <<"<U+0203>">>>>,
      <<"<U+0204>", <<"<U+0205>">>>>, <<"<U+0206>", <<"<U+0207>">>>>,
      <<"<U+0208>", <<"<U+0209>">>>>, <<"<U+020A>", <<"<U+020B>">>>>,
      <<"<U+020C>", <<"<U+020D>">>>>, <<"<U+020E>", <<"<U+020F>">>>>,
      <<"<U+0210>", <<"<U+0211>">>>>, <<"<U+0212>", <<"<U+0213>">>>>,
      <<"<U+0214>", <<"<U+0215>">>>>, <<"<U+0216>", <<"<U+0217>">>>>,
      <<"<U+0218>", <<"<U+0219>">>>>, <<"<U+021A>", <<"<U+021B>">>>>,
      <<"<U+021C>", <<"<U+021D>">>>>, <<"<U+021E>", <<"<U+021F>">>>>,
      <<"<U+0220>", <<"<U+019E>">>>>, <<"<U+0222>", <<"<U+0223>">>>>,
      <<"<U+0224>", <<"<U+0225>">>>>, <<"<U+0226>", <<"<U+0227>">>>>,
      <<"<U+0228>", <<"<U+0229>">>>>, <<"<U+022A>", <<"<U+022B>">>>>,
      <<"<U+022C>", <<"<U+022D>">>>>, <<"<U+022E>", <<"<U+022F>">>>>,
      <<"<U+0230>", <<"<U+0231>">>>>, <<"<U+0232>", <<"<U+0233>">>>>,
      <<"<U+023A>", <<"<U+2C65>">>>>, <<"<U+023B>", <<"<U+023C>">>>>,
      <<"<U+023D>", <<"<U+019A>">>>>, <<"<U+023E>", <<"<U+2C66>">>>>,
      <<"<U+0241>", <<"<U+0242>">>>>, <<"<U+0243>", <<"<U+0180>">>>>,
      <<"<U+0244>", <<"<U+0289>">>>>, <<"<U+0245>", <<"<U+028C>">>>>,
      <<"<U+0246>", <<"<U+0247>">>>>, <<"<U+0248>", <<"<U+0249>">>>>,
      <<"<U+024A>", <<"<U+024B>">>>>, <<"<U+024C>", <<"<U+024D>">>>>,
      <<"<U+024E>", <<"<U+024F>">>>>, <<"<U+0370>", <<"<U+0371>">>>>,
      <<"<U+0372>", <<"<U+0373>">>>>, <<"<U+0376>", <<"<U+0377>">>>>,
      <<"<U+037F>", <<"<U+03F3>">>>>, <<"<U+0386>", <<"<U+03AC>">>>>,
      <<"Ά", <<"ά">>>>, <<"<U+0388>", <<"<U+03AD>">>>>, <<"Έ", <<"έ">>>>,
      <<"<U+0389>", <<"<U+03AE>">>>>, <<"Ή", <<"ή">>>>,
      <<"<U+038A>", <<"<U+03AF>">>>>, <<"Ί", <<"ί">>>>,
      <<"<U+038C>", <<"<U+03CC>">>>>, <<"Ό", <<"ό">>>>,
      <<"<U+038E>", <<"<U+03CD>">>>>, <<"Ύ", <<"ύ">>>>,
      <<"<U+038F>", <<"<U+03CE>">>>>, <<"Ώ", <<"ώ">>>>,
      <<"<U+0391>", <<"<U+03B1>">>>>, <<"Α", <<"α">>>>,
      <<"<U+0392>", <<"<U+03B2>">>>>, <<"Β", <<"β">>>>,
      <<"<U+0393>", <<"<U+03B3>">>>>, <<"Γ", <<"γ">>>>,
      <<"<U+0394>", <<"<U+03B4>">>>>, <<"Δ", <<"δ">>>>,
      <<"<U+0395>", <<"<U+03B5>">>>>, <<"Ε", <<"ε">>>>,
      <<"<U+0396>", <<"<U+03B6>">>>>, <<"Ζ", <<"ζ">>>>,
      <<"<U+0397>", <<"<U+03B7>">>>>, <<"Η", <<"η">>>>,
      <<"<U+0398>", <<"<U+03B8>">>>>, <<"Θ", <<"θ">>>>,
      <<"<U+0399>", <<"<U+03B9>">>>>, <<"Ι", <<"ι">>>>,
      <<"<U+039A>", <<"<U+03BA>">>>>, <<"Κ", <<"κ">>>>,
      <<"<U+039B>", <<"<U+03BB>">>>>, <<"Λ", <<"λ">>>>,
      <<"<U+039C>", <<"<U+03BC>">>>>, <<"Μ", <<"μ">>>>,
      <<"<U+039D>", <<"<U+03BD>">>>>, <<"Ν", <<"ν">>>>,
      <<"<U+039E>", <<"<U+03BE>">>>>, <<"Ξ", <<"ξ">>>>,
      <<"<U+039F>", <<"<U+03BF>">>>>, <<"Ο", <<"ο">>>>,
      <<"<U+03A0>", <<"<U+03C0>">>>>, <<"Π", <<"π">>>>,
      <<"<U+03A1>", <<"<U+03C1>">>>>, <<"Ρ", <<"ρ">>>>,
      <<"<U+03A4>", <<"<U+03C4>">>>>, <<"Τ", <<"τ">>>>,
      <<"<U+03A5>", <<"<U+03C5>">>>>, <<"Υ", <<"υ">>>>,
      <<"<U+03A6>", <<"<U+03C6>">>>>, <<"Φ", <<"φ">>>>,
      <<"<U+03A7>", <<"<U+03C7>">>>>, <<"Χ", <<"χ">>>>,
      <<"<U+03A8>", <<"<U+03C8>">>>>, <<"Ψ", <<"ψ">>>>,
      <<"<U+03A9>", <<"<U+03C9>">>>>, <<"Ω", <<"ω">>>>,
      <<"<U+03AA>", <<"<U+03CA>">>>>, <<"Ϊ", <<"ϊ">>>>,
      <<"<U+03AB>", <<"<U+03CB>">>>>, <<"Ϋ", <<"ϋ">>>>,
      <<"<U+03CF>", <<"<U+03D7>">>>>, <<"Ϗ", <<"ϗ">>>>,
      <<"<U+03D8>", <<"<U+03D9>">>>>, <<"Ϙ", <<"ϙ">>>>,
      <<"<U+03DA>", <<"<U+03DB>">>>>, <<"Ϛ", <<"ϛ">>>>,
      <<"<U+03DC>", <<"<U+03DD>">>>>, <<"Ϝ", <<"ϝ">>>>,
      <<"<U+03DE>", <<"<U+03DF>">>>>, <<"Ϟ", <<"ϟ">>>>,
      <<"<U+03E0>", <<"<U+03E1>">>>>, <<"Ϡ", <<"ϡ">>>>,
      <<"<U+03E2>", <<"<U+03E3>">>>>, <<"Ϣ", <<"ϣ">>>>,
      <<"<U+03E4>", <<"<U+03E5>">>>>, <<"Ϥ", <<"ϥ">>>>,
      <<"<U+03E6>", <<"<U+03E7>">>>>, <<"Ϧ", <<"ϧ">>>>,
      <<"<U+03E8>", <<"<U+03E9>">>>>, <<"Ϩ", <<"ϩ">>>>,
      <<"<U+03EA>", <<"<U+03EB>">>>>, <<"Ϫ", <<"ϫ">>>>,
      <<"<U+03EC>", <<"<U+03ED>">>>>, <<"Ϭ", <<"ϭ">>>>,
      <<"<U+03EE>", <<"<U+03EF>">>>>, <<"Ϯ", <<"ϯ">>>>,
      <<"<U+03F4>", <<"<U+03B8>">>>>, <<"ϴ", <<"θ">>>>,
      <<"<U+03F7>", <<"<U+03F8>">>>>, <<"Ϸ", <<"ϸ">>>>,
      <<"<U+03F9>", <<"<U+03F2>">>>>, <<"Ϲ", <<"ϲ">>>>,
      <<"<U+03FA>", <<"<U+03FB>">>>>, <<"Ϻ", <<"ϻ">>>>,
      <<"<U+03FD>", <<"<U+037B>">>>>, <<"Ͻ", <<"<U+037B>">>>>,
      <<"<U+03FE>", <<"<U+037C>">>>>, <<"Ͼ", <<"<U+037C>">>>>,
      <<"<U+03FF>", <<"<U+037D>">>>>, <<"Ͽ", <<"<U+037D>">>>>,
      <<"<U+0400>", <<"<U+0450>">>>>, <<"<U+0401>", <<"<U+0451>">>>>,
      <<"<U+0402>", <<"<U+0452>">>>>, <<"<U+0403>", <<"<U+0453>">>>>,
      <<"<U+0404>", <<"<U+0454>">>>>, <<"<U+0405>", <<"<U+0455>">>>>,
      <<"<U+0406>", <<"<U+0456>">>>>, <<"<U+0407>", <<"<U+0457>">>>>,
      <<"<U+0408>", <<"<U+0458>">>>>, <<"<U+0409>", <<"<U+0459>">>>>,
      <<"<U+040A>", <<"<U+045A>">>>>, <<"<U+040B>", <<"<U+045B>">>>>,
      <<"<U+040C>", <<"<U+045C>">>>>, <<"<U+040D>", <<"<U+045D>">>>>,
      <<"<U+040E>", <<"<U+045E>">>>>, <<"<U+040F>", <<"<U+045F>">>>>,
      <<"<U+0410>", <<"<U+0430>">>>>, <<"<U+0411>", <<"<U+0431>">>>>,
      <<"<U+0412>", <<"<U+0432>">>>>, <<"<U+0413>", <<"<U+0433>">>>>,
      <<"<U+0414>", <<"<U+0434>">>>>, <<"<U+0415>", <<"<U+0435>">>>>,
      <<"<U+0416>", <<"<U+0436>">>>>, <<"<U+0417>", <<"<U+0437>">>>>,
      <<"<U+0418>", <<"<U+0438>">>>>, <<"<U+0419>", <<"<U+0439>">>>>,
      <<"<U+041A>", <<"<U+043A>">>>>, <<"<U+041B>", <<"<U+043B>">>>>,
      <<"<U+041C>", <<"<U+043C>">>>>, <<"<U+041D>", <<"<U+043D>">>>>,
      <<"<U+041E>", <<"<U+043E>">>>>, <<"<U+041F>", <<"<U+043F>">>>>,
      <<"<U+0420>", <<"<U+0440>">>>>, <<"<U+0421>", <<"<U+0441>">>>>,
      <<"<U+0422>", <<"<U+0442>">>>>, <<"<U+0423>", <<"<U+0443>">>>>,
      <<"<U+0424>", <<"<U+0444>">>>>, <<"<U+0425>", <<"<U+0445>">>>>,
      <<"<U+0426>", <<"<U+0446>">>>>, <<"<U+0427>", <<"<U+0447>">>>>,
      <<"<U+0428>", <<"<U+0448>">>>>, <<"<U+0429>", <<"<U+0449>">>>>,
      <<"<U+042A>", <<"<U+044A>">>>>, <<"<U+042B>", <<"<U+044B>">>>>,
      <<"<U+042C>", <<"<U+044C>">>>>, <<"<U+042D>", <<"<U+044D>">>>>,
      <<"<U+042E>", <<"<U+044E>">>>>, <<"<U+042F>", <<"<U+044F>">>>>,
      <<"<U+0460>", <<"<U+0461>">>>>, <<"<U+0462>", <<"<U+0463>">>>>,
      <<"<U+0464>", <<"<U+0465>">>>>, <<"<U+0466>", <<"<U+0467>">>>>,
      <<"<U+0468>", <<"<U+0469>">>>>, <<"<U+046A>", <<"<U+046B>">>>>,
      <<"<U+046C>", <<"<U+046D>">>>>, <<"<U+046E>", <<"<U+046F>">>>>,
      <<"<U+0470>", <<"<U+0471>">>>>, <<"<U+0472>", <<"<U+0473>">>>>,
      <<"<U+0474>", <<"<U+0475>">>>>, <<"<U+0476>", <<"<U+0477>">>>>,
      <<"<U+0478>", <<"<U+0479>">>>>, <<"<U+047A>", <<"<U+047B>">>>>,
      <<"<U+047C>", <<"<U+047D>">>>>, <<"<U+047E>", <<"<U+047F>">>>>,
      <<"<U+0480>", <<"<U+0481>">>>>, <<"Ҁ", <<"ҁ">>>>,
      <<"<U+048A>", <<"<U+048B>">>>>, <<"Ҋ", <<"ҋ">>>>,
      <<"<U+048C>", <<"<U+048D>">>>>, <<"Ҍ", <<"ҍ">>>>,
      <<"<U+048E>", <<"<U+048F>">>>>, <<"Ҏ", <<"ҏ">>>>,
      <<"<U+0490>", <<"<U+0491>">>>>, <<"Ґ", <<"ґ">>>>,
      <<"<U+0492>", <<"<U+0493>">>>>, <<"Ғ", <<"ғ">>>>,
      <<"<U+0494>", <<"<U+0495>">>>>, <<"Ҕ", <<"ҕ">>>>,
      <<"<U+0496>", <<"<U+0497>">>>>, <<"Җ", <<"җ">>>>,
      <<"<U+0498>", <<"<U+0499>">>>>, <<"Ҙ", <<"ҙ">>>>,
      <<"<U+049A>", <<"<U+049B>">>>>, <<"Қ", <<"қ">>>>,
      <<"<U+049C>", <<"<U+049D>">>>>, <<"Ҝ", <<"ҝ">>>>,
      <<"<U+049E>", <<"<U+049F>">>>>, <<"Ҟ", <<"ҟ">>>>,
      <<"<U+04A0>", <<"<U+04A1>">>>>, <<"Ҡ", <<"ҡ">>>>,
      <<"<U+04A2>", <<"<U+04A3>">>>>, <<"Ң", <<"ң">>>>,
      <<"<U+04A4>", <<"<U+04A5>">>>>, <<"Ҥ", <<"ҥ">>>>,
      <<"<U+04A6>", <<"<U+04A7>">>>>, <<"Ҧ", <<"ҧ">>>>,
      <<"<U+04A8>", <<"<U+04A9>">>>>, <<"Ҩ", <<"ҩ">>>>,
      <<"<U+04AA>", <<"<U+04AB>">>>>, <<"Ҫ", <<"ҫ">>>>,
      <<"<U+04AC>", <<"<U+04AD>">>>>, <<"Ҭ", <<"ҭ">>>>,
      <<"<U+04AE>", <<"<U+04AF>">>>>, <<"Ү", <<"ү">>>>,
      <<"<U+04B0>", <<"<U+04B1>">>>>, <<"Ұ", <<"ұ">>>>,
      <<"<U+04B2>", <<"<U+04B3>">>>>, <<"Ҳ", <<"ҳ">>>>,
      <<"<U+04B4>", <<"<U+04B5>">>>>, <<"Ҵ", <<"ҵ">>>>,
      <<"<U+04B6>", <<"<U+04B7>">>>>, <<"Ҷ", <<"ҷ">>>>,
      <<"<U+04B8>", <<"<U+04B9>">>>>, <<"Ҹ", <<"ҹ">>>>,
      <<"<U+04BA>", <<"<U+04BB>">>>>, <<"Һ", <<"һ">>>>,
      <<"<U+04BC>", <<"<U+04BD>">>>>, <<"Ҽ", <<"ҽ">>>>,
      <<"<U+04BE>", <<"<U+04BF>">>>>, <<"Ҿ", <<"ҿ">>>>,
      <<"<U+04C0>", <<"<U+04CF>">>>>, <<"Ӏ", <<"ӏ">>>>,
      <<"<U+04C1>", <<"<U+04C2>">>>>, <<"Ӂ", <<"ӂ">>>>,
      <<"<U+04C3>", <<"<U+04C4>">>>>, <<"Ӄ", <<"ӄ">>>>,
      <<"<U+04C5>", <<"<U+04C6>">>>>, <<"Ӆ", <<"ӆ">>>>,
      <<"<U+04C7>", <<"<U+04C8>">>>>, <<"Ӈ", <<"ӈ">>>>,
      <<"<U+04C9>", <<"<U+04CA>">>>>, <<"Ӊ", <<"ӊ">>>>,
      <<"<U+04CB>", <<"<U+04CC>">>>>, <<"Ӌ", <<"ӌ">>>>,
      <<"<U+04CD>", <<"<U+04CE>">>>>, <<"Ӎ", <<"ӎ">>>>,
      <<"<U+04D0>", <<"<U+04D1>">>>>, <<"Ӑ", <<"ӑ">>>>,
      <<"<U+04D2>", <<"<U+04D3>">>>>, <<"Ӓ", <<"ӓ">>>>,
      <<"<U+04D4>", <<"<U+04D5>">>>>, <<"Ӕ", <<"ӕ">>>>,
      <<"<U+04D6>", <<"<U+04D7>">>>>, <<"Ӗ", <<"ӗ">>>>,
      <<"<U+04D8>", <<"<U+04D9>">>>>, <<"Ә", <<"ә">>>>,
      <<"<U+04DA>", <<"<U+04DB>">>>>, <<"Ӛ", <<"ӛ">>>>,
      <<"<U+04DC>", <<"<U+04DD>">>>>, <<"Ӝ", <<"ӝ">>>>,
      <<"<U+04DE>", <<"<U+04DF>">>>>, <<"Ӟ", <<"ӟ">>>>,
      <<"<U+04E0>", <<"<U+04E1>">>>>, <<"Ӡ", <<"ӡ">>>>,
      <<"<U+04E2>", <<"<U+04E3>">>>>, <<"Ӣ", <<"ӣ">>>>,
      <<"<U+04E4>", <<"<U+04E5>">>>>, <<"Ӥ", <<"ӥ">>>>,
      <<"<U+04E6>", <<"<U+04E7>">>>>, <<"Ӧ", <<"ӧ">>>>,
      <<"<U+04E8>", <<"<U+04E9>">>>>, <<"Ө", <<"ө">>>>,
      <<"<U+04EA>", <<"<U+04EB>">>>>, <<"Ӫ", <<"ӫ">>>>,
      <<"<U+04EC>", <<"<U+04ED>">>>>, <<"Ӭ", <<"ӭ">>>>,
      <<"<U+04EE>", <<"<U+04EF>">>>>, <<"Ӯ", <<"ӯ">>>>,
      <<"<U+04F0>", <<"<U+04F1>">>>>, <<"Ӱ", <<"ӱ">>>>,
      <<"<U+04F2>", <<"<U+04F3>">>>>, <<"Ӳ", <<"ӳ">>>>,
      <<"<U+04F4>", <<"<U+04F5>">>>>, <<"Ӵ", <<"ӵ">>>>,
      <<"<U+04F6>", <<"<U+04F7>">>>>, <<"Ӷ", <<"ӷ">>>>,
      <<"<U+04F8>", <<"<U+04F9>">>>>, <<"Ӹ", <<"ӹ">>>>,
      <<"<U+04FA>", <<"<U+04FB>">>>>, <<"Ӻ", <<"ӻ">>>>,
      <<"<U+04FC>", <<"<U+04FD>">>>>, <<"Ӽ", <<"ӽ">>>>,
      <<"<U+04FE>", <<"<U+04FF>">>>>, <<"Ӿ", <<"ӿ">>>>,
      <<"<U+0500>", <<"<U+0501>">>>>, <<"<U+0502>", <<"<U+0503>">>>>,
      <<"<U+0504>", <<"<U+0505>">>>>, <<"<U+0506>", <<"<U+0507>">>>>,
      <<"<U+0508>", <<"<U+0509>">>>>, <<"<U+050A>", <<"<U+050B>">>>>,
      <<"<U+050C>", <<"<U+050D>">>>>, <<"<U+050E>", <<"<U+050F>">>>>,
      <<"<U+0510>", <<"<U+0511>">>>>, <<"<U+0512>", <<"<U+0513>">>>>,
      <<"<U+0514>", <<"<U+0515>">>>>, <<"<U+0516>", <<"<U+0517>">>>>,
      <<"<U+0518>", <<"<U+0519>">>>>, <<"<U+051A>", <<"<U+051B>">>>>,
      <<"<U+051C>", <<"<U+051D>">>>>, <<"<U+051E>", <<"<U+051F>">>>>,
      <<"<U+0520>", <<"<U+0521>">>>>, <<"<U+0522>", <<"<U+0523>">>>>,
      <<"<U+0524>", <<"<U+0525>">>>>, <<"<U+0526>", <<"<U+0527>">>>>,
      <<"<U+0528>", <<"<U+0529>">>>>, <<"<U+052A>", <<"<U+052B>">>>>,
      <<"<U+052C>", <<"<U+052D>">>>>, <<"<U+052E>", <<"<U+052F>">>>>,
      <<"<U+0531>", <<"<U+0561>">>>>, <<"<U+0532>", <<"<U+0562>">>>>,
      <<"<U+0533>", <<"<U+0563>">>>>, <<"<U+0534>", <<"<U+0564>">>>>,
      <<"<U+0535>", <<"<U+0565>">>>>, <<"<U+0536>", <<"<U+0566>">>>>,
      <<"<U+0537>", <<"<U+0567>">>>>, <<"<U+0538>", <<"<U+0568>">>>>,
      <<"<U+0539>", <<"<U+0569>">>>>, <<"<U+053A>", <<"<U+056A>">>>>,
      <<"<U+053B>", <<"<U+056B>">>>>, <<"<U+053C>", <<"<U+056C>">>>>,
      <<"<U+053D>", <<"<U+056D>">>>>, <<"<U+053E>", <<"<U+056E>">>>>,
      <<"<U+053F>", <<"<U+056F>">>>>, <<"<U+0540>", <<"<U+0570>">>>>,
      <<"<U+0541>", <<"<U+0571>">>>>, <<"<U+0542>", <<"<U+0572>">>>>,
      <<"<U+0543>", <<"<U+0573>">>>>, <<"<U+0544>", <<"<U+0574>">>>>,
      <<"<U+0545>", <<"<U+0575>">>>>, <<"<U+0546>", <<"<U+0576>">>>>,
      <<"<U+0547>", <<"<U+0577>">>>>, <<"<U+0548>", <<"<U+0578>">>>>,
      <<"<U+0549>", <<"<U+0579>">>>>, <<"<U+054A>", <<"<U+057A>">>>>,
      <<"<U+054B>", <<"<U+057B>">>>>, <<"<U+054C>", <<"<U+057C>">>>>,
      <<"<U+054D>", <<"<U+057D>">>>>, <<"<U+054E>", <<"<U+057E>">>>>,
      <<"<U+054F>", <<"<U+057F>">>>>, <<"<U+0550>", <<"<U+0580>">>>>,
      <<"<U+0551>", <<"<U+0581>">>>>, <<"<U+0552>", <<"<U+0582>">>>>,
      <<"<U+0553>", <<"<U+0583>">>>>, <<"<U+0554>", <<"<U+0584>">>>>,
      <<"<U+0555>", <<"<U+0585>">>>>, <<"<U+0556>", <<"<U+0586>">>>>,
      <<"<U+10A0>", <<"<U+2D00>">>>>, <<"Ⴀ", <<"<U+2D00>">>>>,
      <<"<U+10A1>", <<"<U+2D01>">>>>, <<"Ⴁ", <<"<U+2D01>">>>>,
      <<"<U+10A2>", <<"<U+2D02>">>>>, <<"Ⴂ", <<"<U+2D02>">>>>,
      <<"<U+10A3>", <<"<U+2D03>">>>>, <<"Ⴃ", <<"<U+2D03>">>>>,
      <<"<U+10A4>", <<"<U+2D04>">>>>, <<"Ⴄ", <<"<U+2D04>">>>>,
      <<"<U+10A5>", <<"<U+2D05>">>>>, <<"Ⴅ", <<"<U+2D05>">>>>,
      <<"<U+10A6>", <<"<U+2D06>">>>>, <<"Ⴆ", <<"<U+2D06>">>>>,
      <<"<U+10A7>", <<"<U+2D07>">>>>, <<"Ⴇ", <<"<U+2D07>">>>>,
      <<"<U+10A8>", <<"<U+2D08>">>>>, <<"Ⴈ", <<"<U+2D08>">>>>,
      <<"<U+10A9>", <<"<U+2D09>">>>>, <<"Ⴉ", <<"<U+2D09>">>>>,
      <<"<U+10AA>", <<"<U+2D0A>">>>>, <<"Ⴊ", <<"<U+2D0A>">>>>,
      <<"<U+10AB>", <<"<U+2D0B>">>>>, <<"Ⴋ", <<"<U+2D0B>">>>>,
      <<"<U+10AC>", <<"<U+2D0C>">>>>, <<"Ⴌ", <<"<U+2D0C>">>>>,
      <<"<U+10AD>", <<"<U+2D0D>">>>>, <<"Ⴍ", <<"<U+2D0D>">>>>,
      <<"<U+10AE>", <<"<U+2D0E>">>>>, <<"Ⴎ", <<"<U+2D0E>">>>>,
      <<"<U+10AF>", <<"<U+2D0F>">>>>, <<"Ⴏ", <<"<U+2D0F>">>>>,
      <<"<U+10B0>", <<"<U+2D10>">>>>, <<"Ⴐ", <<"<U+2D10>">>>>,
      <<"<U+10B1>", <<"<U+2D11>">>>>, <<"Ⴑ", <<"<U+2D11>">>>>,
      <<"<U+10B2>", <<"<U+2D12>">>>>, <<"Ⴒ", <<"<U+2D12>">>>>,
      <<"<U+10B3>", <<"<U+2D13>">>>>, <<"Ⴓ", <<"<U+2D13>">>>>,
      <<"<U+10B4>", <<"<U+2D14>">>>>, <<"Ⴔ", <<"<U+2D14>">>>>,
      <<"<U+10B5>", <<"<U+2D15>">>>>, <<"Ⴕ", <<"<U+2D15>">>>>,
      <<"<U+10B6>", <<"<U+2D16>">>>>, <<"Ⴖ", <<"<U+2D16>">>>>,
      <<"<U+10B7>", <<"<U+2D17>">>>>, <<"Ⴗ", <<"<U+2D17>">>>>,
      <<"<U+10B8>", <<"<U+2D18>">>>>, <<"Ⴘ", <<"<U+2D18>">>>>,
      <<"<U+10B9>", <<"<U+2D19>">>>>, <<"Ⴙ", <<"<U+2D19>">>>>,
      <<"<U+10BA>", <<"<U+2D1A>">>>>, <<"Ⴚ", <<"<U+2D1A>">>>>,
      <<"<U+10BB>", <<"<U+2D1B>">>>>, <<"Ⴛ", <<"<U+2D1B>">>>>,
      <<"<U+10BC>", <<"<U+2D1C>">>>>, <<"Ⴜ", <<"<U+2D1C>">>>>,
      <<"<U+10BD>", <<"<U+2D1D>">>>>, <<"Ⴝ", <<"<U+2D1D>">>>>,
      <<"<U+10BE>", <<"<U+2D1E>">>>>, <<"Ⴞ", <<"<U+2D1E>">>>>,
      <<"<U+10BF>", <<"<U+2D1F>">>>>, <<"Ⴟ", <<"<U+2D1F>">>>>,
      <<"<U+10C0>", <<"<U+2D20>">>>>, <<"Ⴠ", <<"<U+2D20>">>>>,
      <<"<U+10C1>", <<"<U+2D21>">>>>, <<"Ⴡ", <<"<U+2D21>">>>>,
      <<"<U+10C2>", <<"<U+2D22>">>>>, <<"Ⴢ", <<"<U+2D22>">>>>,
      <<"<U+10C3>", <<"<U+2D23>">>>>, <<"Ⴣ", <<"<U+2D23>">>>>,
      <<"<U+10C4>", <<"<U+2D24>">>>>, <<"Ⴤ", <<"<U+2D24>">>>>,
      <<"<U+10C5>", <<"<U+2D25>">>>>, <<"Ⴥ", <<"<U+2D25>">>>>,
      <<"<U+10C7>", <<"<U+2D27>">>>>, <<"Ⴧ", <<"<U+2D27>">>>>,
      <<"<U+10CD>", <<"<U+2D2D>">>>>, <<"Ⴭ", <<"<U+2D2D>">>>>,
      <<"<U+13A0>", <<"<U+AB70>">>>>, <<"Ꭰ", <<"<U+AB70>">>>>,
      <<"<U+13A1>", <<"<U+AB71>">>>>, <<"Ꭱ", <<"<U+AB71>">>>>,
      <<"<U+13A2>", <<"<U+AB72>">>>>, <<"Ꭲ", <<"<U+AB72>">>>>,
      <<"<U+13A3>", <<"<U+AB73>">>>>, <<"Ꭳ", <<"<U+AB73>">>>>,
      <<"<U+13A4>", <<"<U+AB74>">>>>, <<"Ꭴ", <<"<U+AB74>">>>>,
      <<"<U+13A5>", <<"<U+AB75>">>>>, <<"Ꭵ", <<"<U+AB75>">>>>,
      <<"<U+13A6>", <<"<U+AB76>">>>>, <<"Ꭶ", <<"<U+AB76>">>>>,
      <<"<U+13A7>", <<"<U+AB77>">>>>, <<"Ꭷ", <<"<U+AB77>">>>>,
      <<"<U+13A8>", <<"<U+AB78>">>>>, <<"Ꭸ", <<"<U+AB78>">>>>,
      <<"<U+13A9>", <<"<U+AB79>">>>>, <<"Ꭹ", <<"<U+AB79>">>>>,
      <<"<U+13AA>", <<"<U+AB7A>">>>>, <<"Ꭺ", <<"<U+AB7A>">>>>,
      <<"<U+13AB>", <<"<U+AB7B>">>>>, <<"Ꭻ", <<"<U+AB7B>">>>>,
      <<"<U+13AC>", <<"<U+AB7C>">>>>, <<"Ꭼ", <<"<U+AB7C>">>>>,
      <<"<U+13AD>", <<"<U+AB7D>">>>>, <<"Ꭽ", <<"<U+AB7D>">>>>,
      <<"<U+13AE>", <<"<U+AB7E>">>>>, <<"Ꭾ", <<"<U+AB7E>">>>>,
      <<"<U+13AF>", <<"<U+AB7F>">>>>, <<"Ꭿ", <<"<U+AB7F>">>>>,
      <<"<U+13B0>", <<"<U+AB80>">>>>, <<"Ꮀ", <<"ꮀ">>>>,
      <<"<U+13B1>", <<"<U+AB81>">>>>, <<"Ꮁ", <<"ꮁ">>>>,
      <<"<U+13B2>", <<"<U+AB82>">>>>, <<"Ꮂ", <<"ꮂ">>>>,
      <<"<U+13B3>", <<"<U+AB83>">>>>, <<"Ꮃ", <<"ꮃ">>>>,
      <<"<U+13B4>", <<"<U+AB84>">>>>, <<"Ꮄ", <<"ꮄ">>>>,
      <<"<U+13B5>", <<"<U+AB85>">>>>, <<"Ꮅ", <<"ꮅ">>>>,
      <<"<U+13B6>", <<"<U+AB86>">>>>, <<"Ꮆ", <<"ꮆ">>>>,
      <<"<U+13B7>", <<"<U+AB87>">>>>, <<"Ꮇ", <<"ꮇ">>>>,
      <<"<U+13B8>", <<"<U+AB88>">>>>, <<"Ꮈ", <<"ꮈ">>>>,
      <<"<U+13B9>", <<"<U+AB89>">>>>, <<"Ꮉ", <<"ꮉ">>>>,
      <<"<U+13BA>", <<"<U+AB8A>">>>>, <<"Ꮊ", <<"ꮊ">>>>,
      <<"<U+13BB>", <<"<U+AB8B>">>>>, <<"Ꮋ", <<"ꮋ">>>>,
      <<"<U+13BC>", <<"<U+AB8C>">>>>, <<"Ꮌ", <<"ꮌ">>>>,
      <<"<U+13BD>", <<"<U+AB8D>">>>>, <<"Ꮍ", <<"ꮍ">>>>,
      <<"<U+13BE>", <<"<U+AB8E>">>>>, <<"Ꮎ", <<"ꮎ">>>>,
      <<"<U+13BF>", <<"<U+AB8F>">>>>, <<"Ꮏ", <<"ꮏ">>>>,
      <<"<U+13C0>", <<"<U+AB90>">>>>, <<"Ꮐ", <<"ꮐ">>>>,
      <<"<U+13C1>", <<"<U+AB91>">>>>, <<"Ꮑ", <<"ꮑ">>>>,
      <<"<U+13C2>", <<"<U+AB92>">>>>, <<"Ꮒ", <<"ꮒ">>>>,
      <<"<U+13C3>", <<"<U+AB93>">>>>, <<"Ꮓ", <<"ꮓ">>>>,
      <<"<U+13C4>", <<"<U+AB94>">>>>, <<"Ꮔ", <<"ꮔ">>>>,
      <<"<U+13C5>", <<"<U+AB95>">>>>, <<"Ꮕ", <<"ꮕ">>>>,
      <<"<U+13C6>", <<"<U+AB96>">>>>, <<"Ꮖ", <<"ꮖ">>>>,
      <<"<U+13C7>", <<"<U+AB97>">>>>, <<"Ꮗ", <<"ꮗ">>>>,
      <<"<U+13C8>", <<"<U+AB98>">>>>, <<"Ꮘ", <<"ꮘ">>>>,
      <<"<U+13C9>", <<"<U+AB99>">>>>, <<"Ꮙ", <<"ꮙ">>>>,
      <<"<U+13CA>", <<"<U+AB9A>">>>>, <<"Ꮚ", <<"ꮚ">>>>,
      <<"<U+13CB>", <<"<U+AB9B>">>>>, <<"Ꮛ", <<"ꮛ">>>>,
      <<"<U+13CC>", <<"<U+AB9C>">>>>, <<"Ꮜ", <<"ꮜ">>>>,
      <<"<U+13CD>", <<"<U+AB9D>">>>>, <<"Ꮝ", <<"ꮝ">>>>,
      <<"<U+13CE>", <<"<U+AB9E>">>>>, <<"Ꮞ", <<"ꮞ">>>>,
      <<"<U+13CF>", <<"<U+AB9F>">>>>, <<"Ꮟ", <<"ꮟ">>>>,
      <<"<U+13D0>", <<"<U+ABA0>">>>>, <<"Ꮠ", <<"ꮠ">>>>,
      <<"<U+13D1>", <<"<U+ABA1>">>>>, <<"Ꮡ", <<"ꮡ">>>>,
      <<"<U+13D2>", <<"<U+ABA2>">>>>, <<"Ꮢ", <<"ꮢ">>>>,
      <<"<U+13D3>", <<"<U+ABA3>">>>>, <<"Ꮣ", <<"ꮣ">>>>,
      <<"<U+13D4>", <<"<U+ABA4>">>>>, <<"Ꮤ", <<"ꮤ">>>>,
      <<"<U+13D5>", <<"<U+ABA5>">>>>, <<"Ꮥ", <<"ꮥ">>>>,
      <<"<U+13D6>", <<"<U+ABA6>">>>>, <<"Ꮦ", <<"ꮦ">>>>,
      <<"<U+13D7>", <<"<U+ABA7>">>>>, <<"Ꮧ", <<"ꮧ">>>>,
      <<"<U+13D8>", <<"<U+ABA8>">>>>, <<"Ꮨ", <<"ꮨ">>>>,
      <<"<U+13D9>", <<"<U+ABA9>">>>>, <<"Ꮩ", <<"ꮩ">>>>,
      <<"<U+13DA>", <<"<U+ABAA>">>>>, <<"Ꮪ", <<"ꮪ">>>>,
      <<"<U+13DB>", <<"<U+ABAB>">>>>, <<"Ꮫ", <<"ꮫ">>>>,
      <<"<U+13DC>", <<"<U+ABAC>">>>>, <<"Ꮬ", <<"ꮬ">>>>,
      <<"<U+13DD>", <<"<U+ABAD>">>>>, <<"Ꮭ", <<"ꮭ">>>>,
      <<"<U+13DE>", <<"<U+ABAE>">>>>, <<"Ꮮ", <<"ꮮ">>>>,
      <<"<U+13DF>", <<"<U+ABAF>">>>>, <<"Ꮯ", <<"ꮯ">>>>,
      <<"<U+13E0>", <<"<U+ABB0>">>>>, <<"Ꮰ", <<"ꮰ">>>>,
      <<"<U+13E1>", <<"<U+ABB1>">>>>, <<"Ꮱ", <<"ꮱ">>>>,
      <<"<U+13E2>", <<"<U+ABB2>">>>>, <<"Ꮲ", <<"ꮲ">>>>,
      <<"<U+13E3>", <<"<U+ABB3>">>>>, <<"Ꮳ", <<"ꮳ">>>>,
      <<"<U+13E4>", <<"<U+ABB4>">>>>, <<"Ꮴ", <<"ꮴ">>>>,
      <<"<U+13E5>", <<"<U+ABB5>">>>>, <<"Ꮵ", <<"ꮵ">>>>,
      <<"<U+13E6>", <<"<U+ABB6>">>>>, <<"Ꮶ", <<"ꮶ">>>>,
      <<"<U+13E7>", <<"<U+ABB7>">>>>, <<"Ꮷ", <<"ꮷ">>>>,
      <<"<U+13E8>", <<"<U+ABB8>">>>>, <<"Ꮸ", <<"ꮸ">>>>,
      <<"<U+13E9>", <<"<U+ABB9>">>>>, <<"Ꮹ", <<"ꮹ">>>>,
      <<"<U+13EA>", <<"<U+ABBA>">>>>, <<"Ꮺ", <<"ꮺ">>>>,
      <<"<U+13EB>", <<"<U+ABBB>">>>>, <<"Ꮻ", <<"ꮻ">>>>,
      <<"<U+13EC>", <<"<U+ABBC>">>>>, <<"Ꮼ", <<"ꮼ">>>>,
      <<"<U+13ED>", <<"<U+ABBD>">>>>, <<"Ꮽ", <<"ꮽ">>>>,
      <<"<U+13EE>", <<"<U+ABBE>">>>>, <<"Ꮾ", <<"ꮾ">>>>,
      <<"<U+13EF>", <<"<U+ABBF>">>>>, <<"Ꮿ", <<"ꮿ">>>>,
      <<"<U+13F0>", <<"<U+13F8>">>>>, <<"Ᏸ", <<"ᏸ">>>>,
      <<"<U+13F1>", <<"<U+13F9>">>>>, <<"Ᏹ", <<"ᏹ">>>>,
      <<"<U+13F2>", <<"<U+13FA>">>>>, <<"Ᏺ", <<"ᏺ">>>>,
      <<"<U+13F3>", <<"<U+13FB>">>>>, <<"Ᏻ", <<"ᏻ">>>>,
      <<"<U+13F4>", <<"<U+13FC>">>>>, <<"Ᏼ", <<"ᏼ">>>>,
      <<"<U+13F5>", <<"<U+13FD>">>>>, <<"Ᏽ", <<"ᏽ">>>>,
      <<"<U+1C90>", <<"<U+10D0>">>>>, <<"Ა", <<"ა">>>>,
      <<"<U+1C91>", <<"<U+10D1>">>>>, <<"Ბ", <<"ბ">>>>,
      <<"<U+1C92>", <<"<U+10D2>">>>>, <<"Გ", <<"გ">>>>,
      <<"<U+1C93>", <<"<U+10D3>">>>>, <<"Დ", <<"დ">>>>,
      <<"<U+1C94>", <<"<U+10D4>">>>>, <<"Ე", <<"ე">>>>,
      <<"<U+1C95>", <<"<U+10D5>">>>>, <<"Ვ", <<"ვ">>>>,
      <<"<U+1C96>", <<"<U+10D6>">>>>, <<"Ზ", <<"ზ">>>>,
      <<"<U+1C97>", <<"<U+10D7>">>>>, <<"Თ", <<"თ">>>>,
      <<"<U+1C98>", <<"<U+10D8>">>>>, <<"Ი", <<"ი">>>>,
      <<"<U+1C99>", <<"<U+10D9>">>>>, <<"Კ", <<"კ">>>>,
      <<"<U+1C9A>", <<"<U+10DA>">>>>, <<"Ლ", <<"ლ">>>>,
      <<"<U+1C9B>", <<"<U+10DB>">>>>, <<"Მ", <<"მ">>>>,
      <<"<U+1C9C>", <<"<U+10DC>">>>>, <<"Ნ", <<"ნ">>>>,
      <<"<U+1C9D>", <<"<U+10DD>">>>>, <<"Ო", <<"ო">>>>,
      <<"<U+1C9E>", <<"<U+10DE>">>>>, <<"Პ", <<"პ">>>>,
      <<"<U+1C9F>", <<"<U+10DF>">>>>, <<"Ჟ", <<"ჟ">>>>,
      <<"<U+1CA0>", <<"<U+10E0>">>>>, <<"Რ", <<"რ">>>>,
      <<"<U+1CA1>", <<"<U+10E1>">>>>, <<"Ს", <<"ს">>>>,
      <<"<U+1CA2>", <<"<U+10E2>">>>>, <<"Ტ", <<"ტ">>>>,
      <<"<U+1CA3>", <<"<U+10E3>">>>>, <<"Უ", <<"უ">>>>,
      <<"<U+1CA4>", <<"<U+10E4>">>>>, <<"Ფ", <<"ფ">>>>,
      <<"<U+1CA5>", <<"<U+10E5>">>>>, <<"Ქ", <<"ქ">>>>,
      <<"<U+1CA6>", <<"<U+10E6>">>>>, <<"Ღ", <<"ღ">>>>,
      <<"<U+1CA7>", <<"<U+10E7>">>>>, <<"Ყ", <<"ყ">>>>,
      <<"<U+1CA8>", <<"<U+10E8>">>>>, <<"Შ", <<"შ">>>>,
      <<"<U+1CA9>", <<"<U+10E9>">>>>, <<"Ჩ", <<"ჩ">>>>,
      <<"<U+1CAA>", <<"<U+10EA>">>>>, <<"Ც", <<"ც">>>>,
      <<"<U+1CAB>", <<"<U+10EB>">>>>, <<"Ძ", <<"ძ">>>>,
      <<"<U+1CAC>", <<"<U+10EC>">>>>, <<"Წ", <<"წ">>>>,
      <<"<U+1CAD>", <<"<U+10ED>">>>>, <<"Ჭ", <<"ჭ">>>>,
      <<"<U+1CAE>", <<"<U+10EE>">>>>, <<"Ხ", <<"ხ">>>>,
      <<"<U+1CAF>", <<"<U+10EF>">>>>, <<"Ჯ", <<"ჯ">>>>,
      <<"<U+1CB0>", <<"<U+10F0>">>>>, <<"Ჰ", <<"ჰ">>>>,
      <<"<U+1CB1>", <<"<U+10F1>">>>>, <<"Ჱ", <<"ჱ">>>>,
      <<"<U+1CB2>", <<"<U+10F2>">>>>, <<"Ჲ", <<"ჲ">>>>,
      <<"<U+1CB3>", <<"<U+10F3>">>>>, <<"Ჳ", <<"ჳ">>>>,
      <<"<U+1CB4>", <<"<U+10F4>">>>>, <<"Ჴ", <<"ჴ">>>>,
      <<"<U+1CB5>", <<"<U+10F5>">>>>, <<"Ჵ", <<"ჵ">>>>,
      <<"<U+1CB6>", <<"<U+10F6>">>>>, <<"Ჶ", <<"ჶ">>>>,
      <<"<U+1CB7>", <<"<U+10F7>">>>>, <<"Ჷ", <<"ჷ">>>>,
      <<"<U+1CB8>", <<"<U+10F8>">>>>, <<"Ჸ", <<"ჸ">>>>,
      <<"<U+1CB9>", <<"<U+10F9>">>>>, <<"Ჹ", <<"ჹ">>>>,
      <<"<U+1CBA>", <<"<U+10FA>">>>>, <<"Ჺ", <<"ჺ">>>>,
      <<"<U+1CBD>", <<"<U+10FD>">>>>, <<"Ჽ", <<"ჽ">>>>,
      <<"<U+1CBE>", <<"<U+10FE>">>>>, <<"Ჾ", <<"ჾ">>>>,
      <<"<U+1CBF>", <<"<U+10FF>">>>>, <<"Ჿ", <<"ჿ">>>>,
      <<"<U+1E00>", <<"<U+1E01>">>>>, <<"<U+1E02>", <<"<U+1E03>">>>>,
      <<"<U+1E04>", <<"<U+1E05>">>>>, <<"<U+1E06>", <<"<U+1E07>">>>>,
      <<"<U+1E08>", <<"<U+1E09>">>>>, <<"<U+1E0A>", <<"<U+1E0B>">>>>,
      <<"<U+1E0C>", <<"<U+1E0D>">>>>, <<"<U+1E0E>", <<"<U+1E0F>">>>>,
      <<"<U+1E10>", <<"<U+1E11>">>>>, <<"<U+1E12>", <<"<U+1E13>">>>>,
      <<"<U+1E14>", <<"<U+1E15>">>>>, <<"<U+1E16>", <<"<U+1E17>">>>>,
      <<"<U+1E18>", <<"<U+1E19>">>>>, <<"<U+1E1A>", <<"<U+1E1B>">>>>,
      <<"<U+1E1C>", <<"<U+1E1D>">>>>, <<"<U+1E1E>", <<"<U+1E1F>">>>>,
      <<"<U+1E20>", <<"<U+1E21>">>>>, <<"<U+1E22>", <<"<U+1E23>">>>>,
      <<"<U+1E24>", <<"<U+1E25>">>>>, <<"<U+1E26>", <<"<U+1E27>">>>>,
      <<"<U+1E28>", <<"<U+1E29>">>>>, <<"<U+1E2A>", <<"<U+1E2B>">>>>,
      <<"<U+1E2C>", <<"<U+1E2D>">>>>, <<"<U+1E2E>", <<"<U+1E2F>">>>>,
      <<"<U+1E30>", <<"<U+1E31>">>>>, <<"<U+1E32>", <<"<U+1E33>">>>>,
      <<"<U+1E34>", <<"<U+1E35>">>>>, <<"<U+1E36>", <<"<U+1E37>">>>>,
      <<"<U+1E38>", <<"<U+1E39>">>>>, <<"<U+1E3A>", <<"<U+1E3B>">>>>,
      <<"<U+1E3C>", <<"<U+1E3D>">>>>, <<"<U+1E3E>", <<"<U+1E3F>">>>>,
      <<"<U+1E40>", <<"<U+1E41>">>>>, <<"<U+1E42>", <<"<U+1E43>">>>>,
      <<"<U+1E44>", <<"<U+1E45>">>>>, <<"<U+1E46>", <<"<U+1E47>">>>>,
      <<"<U+1E48>", <<"<U+1E49>">>>>, <<"<U+1E4A>", <<"<U+1E4B>">>>>,
      <<"<U+1E4C>", <<"<U+1E4D>">>>>, <<"<U+1E4E>", <<"<U+1E4F>">>>>,
      <<"<U+1E50>", <<"<U+1E51>">>>>, <<"<U+1E52>", <<"<U+1E53>">>>>,
      <<"<U+1E54>", <<"<U+1E55>">>>>, <<"<U+1E56>", <<"<U+1E57>">>>>,
      <<"<U+1E58>", <<"<U+1E59>">>>>, <<"<U+1E5A>", <<"<U+1E5B>">>>>,
      <<"<U+1E5C>", <<"<U+1E5D>">>>>, <<"<U+1E5E>", <<"<U+1E5F>">>>>,
      <<"<U+1E60>", <<"<U+1E61>">>>>, <<"<U+1E62>", <<"<U+1E63>">>>>,
      <<"<U+1E64>", <<"<U+1E65>">>>>, <<"<U+1E66>", <<"<U+1E67>">>>>,
      <<"<U+1E68>", <<"<U+1E69>">>>>, <<"<U+1E6A>", <<"<U+1E6B>">>>>,
      <<"<U+1E6C>", <<"<U+1E6D>">>>>, <<"<U+1E6E>", <<"<U+1E6F>">>>>,
      <<"<U+1E70>", <<"<U+1E71>">>>>, <<"<U+1E72>", <<"<U+1E73>">>>>,
      <<"<U+1E74>", <<"<U+1E75>">>>>, <<"<U+1E76>", <<"<U+1E77>">>>>,
      <<"<U+1E78>", <<"<U+1E79>">>>>, <<"<U+1E7A>", <<"<U+1E7B>">>>>,
      <<"<U+1E7C>", <<"<U+1E7D>">>>>, <<"<U+1E7E>", <<"<U+1E7F>">>>>,
      <<"<U+1E80>", <<"<U+1E81>">>>>, <<"Ẁ", <<"ẁ">>>>,
      <<"<U+1E82>", <<"<U+1E83>">>>>, <<"Ẃ", <<"ẃ">>>>,
      <<"<U+1E84>", <<"<U+1E85>">>>>, <<"Ẅ", <<"ẅ">>>>,
      <<"<U+1E86>", <<"<U+1E87>">>>>, <<"Ẇ", <<"ẇ">>>>,
      <<"<U+1E88>", <<"<U+1E89>">>>>, <<"Ẉ", <<"ẉ">>>>,
      <<"<U+1E8A>", <<"<U+1E8B>">>>>, <<"Ẋ", <<"ẋ">>>>,
      <<"<U+1E8C>", <<"<U+1E8D>">>>>, <<"Ẍ", <<"ẍ">>>>,
      <<"<U+1E8E>", <<"<U+1E8F>">>>>, <<"Ẏ", <<"ẏ">>>>,
      <<"<U+1E90>", <<"<U+1E91>">>>>, <<"Ẑ", <<"ẑ">>>>,
      <<"<U+1E92>", <<"<U+1E93>">>>>, <<"Ẓ", <<"ẓ">>>>,
      <<"<U+1E94>", <<"<U+1E95>">>>>, <<"Ẕ", <<"ẕ">>>>,
      <<"<U+1E9E>", <<"<U+00DF>">>>>, <<"ẞ", <<"ß">>>>,
      <<"<U+1EA0>", <<"<U+1EA1>">>>>, <<"Ạ", <<"ạ">>>>,
      <<"<U+1EA2>", <<"<U+1EA3>">>>>, <<"Ả", <<"ả">>>>,
      <<"<U+1EA4>", <<"<U+1EA5>">>>>, <<"Ấ", <<"ấ">>>>,
      <<"<U+1EA6>", <<"<U+1EA7>">>>>, <<"Ầ", <<"ầ">>>>,
      <<"<U+1EA8>", <<"<U+1EA9>">>>>, <<"Ẩ", <<"ẩ">>>>,
      <<"<U+1EAA>", <<"<U+1EAB>">>>>, <<"Ẫ", <<"ẫ">>>>,
      <<"<U+1EAC>", <<"<U+1EAD>">>>>, <<"Ậ", <<"ậ">>>>,
      <<"<U+1EAE>", <<"<U+1EAF>">>>>, <<"Ắ", <<"ắ">>>>,
      <<"<U+1EB0>", <<"<U+1EB1>">>>>, <<"Ằ", <<"ằ">>>>,
      <<"<U+1EB2>", <<"<U+1EB3>">>>>, <<"Ẳ", <<"ẳ">>>>,
      <<"<U+1EB4>", <<"<U+1EB5>">>>>, <<"Ẵ", <<"ẵ">>>>,
      <<"<U+1EB6>", <<"<U+1EB7>">>>>, <<"Ặ", <<"ặ">>>>,
      <<"<U+1EB8>", <<"<U+1EB9>">>>>, <<"Ẹ", <<"ẹ">>>>,
      <<"<U+1EBA>", <<"<U+1EBB>">>>>, <<"Ẻ", <<"ẻ">>>>,
      <<"<U+1EBC>", <<"<U+1EBD>">>>>, <<"Ẽ", <<"ẽ">>>>,
      <<"<U+1EBE>", <<"<U+1EBF>">>>>, <<"Ế", <<"ế">>>>,
      <<"<U+1EC0>", <<"<U+1EC1>">>>>, <<"Ề", <<"ề">>>>,
      <<"<U+1EC2>", <<"<U+1EC3>">>>>, <<"Ể", <<"ể">>>>,
      <<"<U+1EC4>", <<"<U+1EC5>">>>>, <<"Ễ", <<"ễ">>>>,
      <<"<U+1EC6>", <<"<U+1EC7>">>>>, <<"Ệ", <<"ệ">>>>,
      <<"<U+1EC8>", <<"<U+1EC9>">>>>, <<"Ỉ", <<"ỉ">>>>,
      <<"<U+1ECA>", <<"<U+1ECB>">>>>, <<"Ị", <<"ị">>>>,
      <<"<U+1ECC>", <<"<U+1ECD>">>>>, <<"Ọ", <<"ọ">>>>,
      <<"<U+1ECE>", <<"<U+1ECF>">>>>, <<"Ỏ", <<"ỏ">>>>,
      <<"<U+1ED0>", <<"<U+1ED1>">>>>, <<"Ố", <<"ố">>>>,
      <<"<U+1ED2>", <<"<U+1ED3>">>>>, <<"Ồ", <<"ồ">>>>,
      <<"<U+1ED4>", <<"<U+1ED5>">>>>, <<"Ổ", <<"ổ">>>>,
      <<"<U+1ED6>", <<"<U+1ED7>">>>>, <<"Ỗ", <<"ỗ">>>>,
      <<"<U+1ED8>", <<"<U+1ED9>">>>>, <<"Ộ", <<"ộ">>>>,
      <<"<U+1EDA>", <<"<U+1EDB>">>>>, <<"Ớ", <<"ớ">>>>,
      <<"<U+1EDC>", <<"<U+1EDD>">>>>, <<"Ờ", <<"ờ">>>>,
      <<"<U+1EDE>", <<"<U+1EDF>">>>>, <<"Ở", <<"ở">>>>,
      <<"<U+1EE0>", <<"<U+1EE1>">>>>, <<"Ỡ", <<"ỡ">>>>,
      <<"<U+1EE2>", <<"<U+1EE3>">>>>, <<"Ợ", <<"ợ">>>>,
      <<"<U+1EE4>", <<"<U+1EE5>">>>>, <<"Ụ", <<"ụ">>>>,
      <<"<U+1EE6>", <<"<U+1EE7>">>>>, <<"Ủ", <<"ủ">>>>,
      <<"<U+1EE8>", <<"<U+1EE9>">>>>, <<"Ứ", <<"ứ">>>>,
      <<"<U+1EEA>", <<"<U+1EEB>">>>>, <<"Ừ", <<"ừ">>>>,
      <<"<U+1EEC>", <<"<U+1EED>">>>>, <<"Ử", <<"ử">>>>,
      <<"<U+1EEE>", <<"<U+1EEF>">>>>, <<"Ữ", <<"ữ">>>>,
      <<"<U+1EF0>", <<"<U+1EF1>">>>>, <<"Ự", <<"ự">>>>,
      <<"<U+1EF2>", <<"<U+1EF3>">>>>, <<"Ỳ", <<"ỳ">>>>,
      <<"<U+1EF4>", <<"<U+1EF5>">>>>, <<"Ỵ", <<"ỵ">>>>,
      <<"<U+1EF6>", <<"<U+1EF7>">>>>, <<"Ỷ", <<"ỷ">>>>,
      <<"<U+1EF8>", <<"<U+1EF9>">>>>, <<"Ỹ", <<"ỹ">>>>,
      <<"<U+1EFA>", <<"<U+1EFB>">>>>, <<"Ỻ", <<"ỻ">>>>,
      <<"<U+1EFC>", <<"<U+1EFD>">>>>, <<"Ỽ", <<"ỽ">>>>,
      <<"<U+1EFE>", <<"<U+1EFF>">>>>, <<"Ỿ", <<"ỿ">>>>,
      <<"<U+1F08>", <<"<U+1F00>">>>>, <<"<U+1F09>", <<"<U+1F01>">>>>,
      <<"<U+1F0A>", <<"<U+1F02>">>>>, <<"<U+1F0B>", <<"<U+1F03>">>>>,
      <<"<U+1F0C>", <<"<U+1F04>">>>>, <<"<U+1F0D>", <<"<U+1F05>">>>>,
      <<"<U+1F0E>", <<"<U+1F06>">>>>, <<"<U+1F0F>", <<"<U+1F07>">>>>,
      <<"<U+1F18>", <<"<U+1F10>">>>>, <<"<U+1F19>", <<"<U+1F11>">>>>,
      <<"<U+1F1A>", <<"<U+1F12>">>>>, <<"<U+1F1B>", <<"<U+1F13>">>>>,
      <<"<U+1F1C>", <<"<U+1F14>">>>>, <<"<U+1F1D>", <<"<U+1F15>">>>>,
      <<"<U+1F28>", <<"<U+1F20>">>>>, <<"<U+1F29>", <<"<U+1F21>">>>>,
      <<"<U+1F2A>", <<"<U+1F22>">>>>, <<"<U+1F2B>", <<"<U+1F23>">>>>,
      <<"<U+1F2C>", <<"<U+1F24>">>>>, <<"<U+1F2D>", <<"<U+1F25>">>>>,
      <<"<U+1F2E>", <<"<U+1F26>">>>>, <<"<U+1F2F>", <<"<U+1F27>">>>>,
      <<"<U+1F38>", <<"<U+1F30>">>>>, <<"<U+1F39>", <<"<U+1F31>">>>>,
      <<"<U+1F3A>", <<"<U+1F32>">>>>, <<"<U+1F3B>", <<"<U+1F33>">>>>,
      <<"<U+1F3C>", <<"<U+1F34>">>>>, <<"<U+1F3D>", <<"<U+1F35>">>>>,
      <<"<U+1F3E>", <<"<U+1F36>">>>>, <<"<U+1F3F>", <<"<U+1F37>">>>>,
      <<"<U+1F48>", <<"<U+1F40>">>>>, <<"<U+1F49>", <<"<U+1F41>">>>>,
      <<"<U+1F4A>", <<"<U+1F42>">>>>, <<"<U+1F4B>", <<"<U+1F43>">>>>,
      <<"<U+1F4C>", <<"<U+1F44>">>>>, <<"<U+1F4D>", <<"<U+1F45>">>>>,
      <<"<U+1F59>", <<"<U+1F51>">>>>, <<"<U+1F5B>", <<"<U+1F53>">>>>,
      <<"<U+1F5D>", <<"<U+1F55>">>>>, <<"<U+1F5F>", <<"<U+1F57>">>>>,
      <<"<U+1F68>", <<"<U+1F60>">>>>, <<"<U+1F69>", <<"<U+1F61>">>>>,
      <<"<U+1F6A>", <<"<U+1F62>">>>>, <<"<U+1F6B>", <<"<U+1F63>">>>>,
      <<"<U+1F6C>", <<"<U+1F64>">>>>, <<"<U+1F6D>", <<"<U+1F65>">>>>,
      <<"<U+1F6E>", <<"<U+1F66>">>>>, <<"<U+1F6F>", <<"<U+1F67>">>>>,
      <<"<U+1F88>", <<"<U+1F80>">>>>, <<"ᾈ", <<"ᾀ">>>>,
      <<"<U+1F89>", <<"<U+1F81>">>>>, <<"ᾉ", <<"ᾁ">>>>,
      <<"<U+1F8A>", <<"<U+1F82>">>>>, <<"ᾊ", <<"ᾂ">>>>,
      <<"<U+1F8B>", <<"<U+1F83>">>>>, <<"ᾋ", <<"ᾃ">>>>,
      <<"<U+1F8C>", <<"<U+1F84>">>>>, <<"ᾌ", <<"ᾄ">>>>,
      <<"<U+1F8D>", <<"<U+1F85>">>>>, <<"ᾍ", <<"ᾅ">>>>,
      <<"<U+1F8E>", <<"<U+1F86>">>>>, <<"ᾎ", <<"ᾆ">>>>,
      <<"<U+1F8F>", <<"<U+1F87>">>>>, <<"ᾏ", <<"ᾇ">>>>,
      <<"<U+1F98>", <<"<U+1F90>">>>>, <<"ᾘ", <<"ᾐ">>>>,
      <<"<U+1F99>", <<"<U+1F91>">>>>, <<"ᾙ", <<"ᾑ">>>>,
      <<"<U+1F9A>", <<"<U+1F92>">>>>, <<"ᾚ", <<"ᾒ">>>>,
      <<"<U+1F9B>", <<"<U+1F93>">>>>, <<"ᾛ", <<"ᾓ">>>>,
      <<"<U+1F9C>", <<"<U+1F94>">>>>, <<"ᾜ", <<"ᾔ">>>>,
      <<"<U+1F9D>", <<"<U+1F95>">>>>, <<"ᾝ", <<"ᾕ">>>>,
      <<"<U+1F9E>", <<"<U+1F96>">>>>, <<"ᾞ", <<"ᾖ">>>>,
      <<"<U+1F9F>", <<"<U+1F97>">>>>, <<"ᾟ", <<"ᾗ">>>>,
      <<"<U+1FA8>", <<"<U+1FA0>">>>>, <<"ᾨ", <<"ᾠ">>>>,
      <<"<U+1FA9>", <<"<U+1FA1>">>>>, <<"ᾩ", <<"ᾡ">>>>,
      <<"<U+1FAA>", <<"<U+1FA2>">>>>, <<"ᾪ", <<"ᾢ">>>>,
      <<"<U+1FAB>", <<"<U+1FA3>">>>>, <<"ᾫ", <<"ᾣ">>>>,
      <<"<U+1FAC>", <<"<U+1FA4>">>>>, <<"ᾬ", <<"ᾤ">>>>,
      <<"<U+1FAD>", <<"<U+1FA5>">>>>, <<"ᾭ", <<"ᾥ">>>>,
      <<"<U+1FAE>", <<"<U+1FA6>">>>>, <<"ᾮ", <<"ᾦ">>>>,
      <<"<U+1FAF>", <<"<U+1FA7>">>>>, <<"ᾯ", <<"ᾧ">>>>,
      <<"<U+1FB8>", <<"<U+1FB0>">>>>, <<"Ᾰ", <<"ᾰ">>>>,
      <<"<U+1FB9>", <<"<U+1FB1>">>>>, <<"Ᾱ", <<"ᾱ">>>>,
      <<"<U+1FBA>", <<"<U+1F70>">>>>, <<"Ὰ", <<"<U+1F70>">>>>,
      <<"<U+1FBB>", <<"<U+1F71>">>>>, <<"Ά", <<"<U+1F71>">>>>,
      <<"<U+1FBC>", <<"<U+1FB3>">>>>, <<"ᾼ", <<"ᾳ">>>>,
      <<"<U+1FC8>", <<"<U+1F72>">>>>, <<"Ὲ", <<"<U+1F72>">>>>,
      <<"<U+1FC9>", <<"<U+1F73>">>>>, <<"Έ", <<"<U+1F73>">>>>,
      <<"<U+1FCA>", <<"<U+1F74>">>>>, <<"Ὴ", <<"<U+1F74>">>>>,
      <<"<U+1FCB>", <<"<U+1F75>">>>>, <<"Ή", <<"<U+1F75>">>>>,
      <<"<U+1FCC>", <<"<U+1FC3>">>>>, <<"ῌ", <<"ῃ">>>>,
      <<"<U+1FD8>", <<"<U+1FD0>">>>>, <<"Ῐ", <<"ῐ">>>>,
      <<"<U+1FD9>", <<"<U+1FD1>">>>>, <<"Ῑ", <<"ῑ">>>>,
      <<"<U+1FDA>", <<"<U+1F76>">>>>, <<"Ὶ", <<"<U+1F76>">>>>,
      <<"<U+1FDB>", <<"<U+1F77>">>>>, <<"Ί", <<"<U+1F77>">>>>,
      <<"<U+1FE8>", <<"<U+1FE0>">>>>, <<"Ῠ", <<"ῠ">>>>,
      <<"<U+1FE9>", <<"<U+1FE1>">>>>, <<"Ῡ", <<"ῡ">>>>,
      <<"<U+1FEA>", <<"<U+1F7A>">>>>, <<"Ὺ", <<"<U+1F7A>">>>>,
      <<"<U+1FEB>", <<"<U+1F7B>">>>>, <<"Ύ", <<"<U+1F7B>">>>>,
      <<"<U+1FEC>", <<"<U+1FE5>">>>>, <<"Ῥ", <<"ῥ">>>>,
      <<"<U+1FF8>", <<"<U+1F78>">>>>, <<"Ὸ", <<"<U+1F78>">>>>,
      <<"<U+1FF9>", <<"<U+1F79>">>>>, <<"Ό", <<"<U+1F79>">>>>,
      <<"<U+1FFA>", <<"<U+1F7C>">>>>, <<"Ὼ", <<"<U+1F7C>">>>>,
      <<"<U+1FFB>", <<"<U+1F7D>">>>>, <<"Ώ", <<"<U+1F7D>">>>>,
      <<"<U+1FFC>", <<"<U+1FF3>">>>>, <<"ῼ", <<"ῳ">>>>,
      <<"<U+2126>", <<"<U+03C9>">>>>, <<"<U+212A>", <<"k">>>>,
      <<"<U+212B>", <<"<U+00E5>">>>>, <<"<U+2132>", <<"<U+214E>">>>>,
      <<"<U+2160>", <<"<U+2170>">>>>, <<"<U+2161>", <<"<U+2171>">>>>,
      <<"<U+2162>", <<"<U+2172>">>>>, <<"<U+2163>", <<"<U+2173>">>>>,
      <<"<U+2164>", <<"<U+2174>">>>>, <<"<U+2165>", <<"<U+2175>">>>>,
      <<"<U+2166>", <<"<U+2176>">>>>, <<"<U+2167>", <<"<U+2177>">>>>,
      <<"<U+2168>", <<"<U+2178>">>>>, <<"<U+2169>", <<"<U+2179>">>>>,
      <<"<U+216A>", <<"<U+217A>">>>>, <<"<U+216B>", <<"<U+217B>">>>>,
      <<"<U+216C>", <<"<U+217C>">>>>, <<"<U+216D>", <<"<U+217D>">>>>,
      <<"<U+216E>", <<"<U+217E>">>>>, <<"<U+216F>", <<"<U+217F>">>>>,
      <<"<U+2183>", <<"<U+2184>">>>>, <<"Ↄ", <<"ↄ">>>>,
      <<"<U+24B6>", <<"<U+24D0>">>>>, <<"Ⓐ", <<"ⓐ">>>>,
      <<"<U+24B7>", <<"<U+24D1>">>>>, <<"Ⓑ", <<"ⓑ">>>>,
      <<"<U+24B8>", <<"<U+24D2>">>>>, <<"Ⓒ", <<"ⓒ">>>>,
      <<"<U+24B9>", <<"<U+24D3>">>>>, <<"Ⓓ", <<"ⓓ">>>>,
      <<"<U+24BA>", <<"<U+24D4>">>>>, <<"Ⓔ", <<"ⓔ">>>>,
      <<"<U+24BB>", <<"<U+24D5>">>>>, <<"Ⓕ", <<"ⓕ">>>>,
      <<"<U+24BC>", <<"<U+24D6>">>>>, <<"Ⓖ", <<"ⓖ">>>>,
      <<"<U+24BD>", <<"<U+24D7>">>>>, <<"Ⓗ", <<"ⓗ">>>>,
      <<"<U+24BE>", <<"<U+24D8>">>>>, <<"Ⓘ", <<"ⓘ">>>>,
      <<"<U+24BF>", <<"<U+24D9>">>>>, <<"Ⓙ", <<"ⓙ">>>>,
      <<"<U+24C0>", <<"<U+24DA>">>>>, <<"Ⓚ", <<"ⓚ">>>>,
      <<"<U+24C1>", <<"<U+24DB>">>>>, <<"Ⓛ", <<"ⓛ">>>>,
      <<"<U+24C2>", <<"<U+24DC>">>>>, <<"Ⓜ", <<"ⓜ">>>>,
      <<"<U+24C3>", <<"<U+24DD>">>>>, <<"Ⓝ", <<"ⓝ">>>>,
      <<"<U+24C4>", <<"<U+24DE>">>>>, <<"Ⓞ", <<"ⓞ">>>>,
      <<"<U+24C5>", <<"<U+24DF>">>>>, <<"Ⓟ", <<"ⓟ">>>>,
      <<"<U+24C6>", <<"<U+24E0>">>>>, <<"Ⓠ", <<"ⓠ">>>>,
      <<"<U+24C7>", <<"<U+24E1>">>>>, <<"Ⓡ", <<"ⓡ">>>>,
      <<"<U+24C8>", <<"<U+24E2>">>>>, <<"Ⓢ", <<"ⓢ">>>>,
      <<"<U+24C9>", <<"<U+24E3>">>>>, <<"Ⓣ", <<"ⓣ">>>>,
      <<"<U+24CA>", <<"<U+24E4>">>>>, <<"Ⓤ", <<"ⓤ">>>>,
      <<"<U+24CB>", <<"<U+24E5>">>>>, <<"Ⓥ", <<"ⓥ">>>>,
      <<"<U+24CC>", <<"<U+24E6>">>>>, <<"Ⓦ", <<"ⓦ">>>>,
      <<"<U+24CD>", <<"<U+24E7>">>>>, <<"Ⓧ", <<"ⓧ">>>>,
      <<"<U+24CE>", <<"<U+24E8>">>>>, <<"Ⓨ", <<"ⓨ">>>>,
      <<"<U+24CF>", <<"<U+24E9>">>>>, <<"Ⓩ", <<"ⓩ">>>>,
      <<"<U+2C00>", <<"<U+2C30>">>>>, <<"<U+2C01>", <<"<U+2C31>">>>>,
      <<"<U+2C02>", <<"<U+2C32>">>>>, <<"<U+2C03>", <<"<U+2C33>">>>>,
      <<"<U+2C04>", <<"<U+2C34>">>>>, <<"<U+2C05>", <<"<U+2C35>">>>>,
      <<"<U+2C06>", <<"<U+2C36>">>>>, <<"<U+2C07>", <<"<U+2C37>">>>>,
      <<"<U+2C08>", <<"<U+2C38>">>>>, <<"<U+2C09>", <<"<U+2C39>">>>>,
      <<"<U+2C0A>", <<"<U+2C3A>">>>>, <<"<U+2C0B>", <<"<U+2C3B>">>>>,
      <<"<U+2C0C>", <<"<U+2C3C>">>>>, <<"<U+2C0D>", <<"<U+2C3D>">>>>,
      <<"<U+2C0E>", <<"<U+2C3E>">>>>, <<"<U+2C0F>", <<"<U+2C3F>">>>>,
      <<"<U+2C10>", <<"<U+2C40>">>>>, <<"<U+2C11>", <<"<U+2C41>">>>>,
      <<"<U+2C12>", <<"<U+2C42>">>>>, <<"<U+2C13>", <<"<U+2C43>">>>>,
      <<"<U+2C14>", <<"<U+2C44>">>>>, <<"<U+2C15>", <<"<U+2C45>">>>>,
      <<"<U+2C16>", <<"<U+2C46>">>>>, <<"<U+2C17>", <<"<U+2C47>">>>>,
      <<"<U+2C18>", <<"<U+2C48>">>>>, <<"<U+2C19>", <<"<U+2C49>">>>>,
      <<"<U+2C1A>", <<"<U+2C4A>">>>>, <<"<U+2C1B>", <<"<U+2C4B>">>>>,
      <<"<U+2C1C>", <<"<U+2C4C>">>>>, <<"<U+2C1D>", <<"<U+2C4D>">>>>,
      <<"<U+2C1E>", <<"<U+2C4E>">>>>, <<"<U+2C1F>", <<"<U+2C4F>">>>>,
      <<"<U+2C20>", <<"<U+2C50>">>>>, <<"<U+2C21>", <<"<U+2C51>">>>>,
      <<"<U+2C22>", <<"<U+2C52>">>>>, <<"<U+2C23>", <<"<U+2C53>">>>>,
      <<"<U+2C24>", <<"<U+2C54>">>>>, <<"<U+2C25>", <<"<U+2C55>">>>>,
      <<"<U+2C26>", <<"<U+2C56>">>>>, <<"<U+2C27>", <<"<U+2C57>">>>>,
      <<"<U+2C28>", <<"<U+2C58>">>>>, <<"<U+2C29>", <<"<U+2C59>">>>>,
      <<"<U+2C2A>", <<"<U+2C5A>">>>>, <<"<U+2C2B>", <<"<U+2C5B>">>>>,
      <<"<U+2C2C>", <<"<U+2C5C>">>>>, <<"<U+2C2D>", <<"<U+2C5D>">>>>,
      <<"<U+2C2E>", <<"<U+2C5E>">>>>, <<"<U+2C2F>", <<"<U+2C5F>">>>>,
      <<"<U+2C60>", <<"<U+2C61>">>>>, <<"<U+2C62>", <<"<U+026B>">>>>,
      <<"<U+2C63>", <<"<U+1D7D>">>>>, <<"<U+2C64>", <<"<U+027D>">>>>,
      <<"<U+2C67>", <<"<U+2C68>">>>>, <<"<U+2C69>", <<"<U+2C6A>">>>>,
      <<"<U+2C6B>", <<"<U+2C6C>">>>>, <<"<U+2C6D>", <<"<U+0251>">>>>,
      <<"<U+2C6E>", <<"<U+0271>">>>>, <<"<U+2C6F>", <<"<U+0250>">>>>,
      <<"<U+2C70>", <<"<U+0252>">>>>, <<"<U+2C72>", <<"<U+2C73>">>>>,
      <<"<U+2C75>", <<"<U+2C76>">>>>, <<"<U+2C7E>", <<"<U+023F>">>>>,
      <<"<U+2C7F>", <<"<U+0240>">>>>, <<"<U+2C80>", <<"<U+2C81>">>>>,
      <<"Ⲁ", <<"ⲁ">>>>, <<"<U+2C82>", <<"<U+2C83>">>>>, <<"Ⲃ", <<"ⲃ">>>>,
      <<"<U+2C84>", <<"<U+2C85>">>>>, <<"Ⲅ", <<"ⲅ">>>>,
      <<"<U+2C86>", <<"<U+2C87>">>>>, <<"Ⲇ", <<"ⲇ">>>>,
      <<"<U+2C88>", <<"<U+2C89>">>>>, <<"Ⲉ", <<"ⲉ">>>>,
      <<"<U+2C8A>", <<"<U+2C8B>">>>>, <<"Ⲋ", <<"ⲋ">>>>,
      <<"<U+2C8C>", <<"<U+2C8D>">>>>, <<"Ⲍ", <<"ⲍ">>>>,
      <<"<U+2C8E>", <<"<U+2C8F>">>>>, <<"Ⲏ", <<"ⲏ">>>>,
      <<"<U+2C90>", <<"<U+2C91>">>>>, <<"Ⲑ", <<"ⲑ">>>>,
      <<"<U+2C92>", <<"<U+2C93>">>>>, <<"Ⲓ", <<"ⲓ">>>>,
      <<"<U+2C94>", <<"<U+2C95>">>>>, <<"Ⲕ", <<"ⲕ">>>>,
      <<"<U+2C96>", <<"<U+2C97>">>>>, <<"Ⲗ", <<"ⲗ">>>>,
      <<"<U+2C98>", <<"<U+2C99>">>>>, <<"Ⲙ", <<"ⲙ">>>>,
      <<"<U+2C9A>", <<"<U+2C9B>">>>>, <<"Ⲛ", <<"ⲛ">>>>,
      <<"<U+2C9C>", <<"<U+2C9D>">>>>, <<"Ⲝ", <<"ⲝ">>>>,
      <<"<U+2C9E>", <<"<U+2C9F>">>>>, <<"Ⲟ", <<"ⲟ">>>>,
      <<"<U+2CA0>", <<"<U+2CA1>">>>>, <<"Ⲡ", <<"ⲡ">>>>,
      <<"<U+2CA2>", <<"<U+2CA3>">>>>, <<"Ⲣ", <<"ⲣ">>>>,
      <<"<U+2CA4>", <<"<U+2CA5>">>>>, <<"Ⲥ", <<"ⲥ">>>>,
      <<"<U+2CA6>", <<"<U+2CA7>">>>>, <<"Ⲧ", <<"ⲧ">>>>,
      <<"<U+2CA8>", <<"<U+2CA9>">>>>, <<"Ⲩ", <<"ⲩ">>>>,
      <<"<U+2CAA>", <<"<U+2CAB>">>>>, <<"Ⲫ", <<"ⲫ">>>>,
      <<"<U+2CAC>", <<"<U+2CAD>">>>>, <<"Ⲭ", <<"ⲭ">>>>,
      <<"<U+2CAE>", <<"<U+2CAF>">>>>, <<"Ⲯ", <<"ⲯ">>>>,
      <<"<U+2CB0>", <<"<U+2CB1>">>>>, <<"Ⲱ", <<"ⲱ">>>>,
      <<"<U+2CB2>", <<"<U+2CB3>">>>>, <<"Ⲳ", <<"ⲳ">>>>,
      <<"<U+2CB4>", <<"<U+2CB5>">>>>, <<"Ⲵ", <<"ⲵ">>>>,
      <<"<U+2CB6>", <<"<U+2CB7>">>>>, <<"Ⲷ", <<"ⲷ">>>>,
      <<"<U+2CB8>", <<"<U+2CB9>">>>>, <<"Ⲹ", <<"ⲹ">>>>,
      <<"<U+2CBA>", <<"<U+2CBB>">>>>, <<"Ⲻ", <<"ⲻ">>>>,
      <<"<U+2CBC>", <<"<U+2CBD>">>>>, <<"Ⲽ", <<"ⲽ">>>>,
      <<"<U+2CBE>", <<"<U+2CBF>">>>>, <<"Ⲿ", <<"ⲿ">>>>,
      <<"<U+2CC0>", <<"<U+2CC1>">>>>, <<"Ⳁ", <<"ⳁ">>>>,
      <<"<U+2CC2>", <<"<U+2CC3>">>>>, <<"Ⳃ", <<"ⳃ">>>>,
      <<"<U+2CC4>", <<"<U+2CC5>">>>>, <<"Ⳅ", <<"ⳅ">>>>,
      <<"<U+2CC6>", <<"<U+2CC7>">>>>, <<"Ⳇ", <<"ⳇ">>>>,
      <<"<U+2CC8>", <<"<U+2CC9>">>>>, <<"Ⳉ", <<"ⳉ">>>>,
      <<"<U+2CCA>", <<"<U+2CCB>">>>>, <<"Ⳋ", <<"ⳋ">>>>,
      <<"<U+2CCC>", <<"<U+2CCD>">>>>, <<"Ⳍ", <<"ⳍ">>>>,
      <<"<U+2CCE>", <<"<U+2CCF>">>>>, <<"Ⳏ", <<"ⳏ">>>>,
      <<"<U+2CD0>", <<"<U+2CD1>">>>>, <<"Ⳑ", <<"ⳑ">>>>,
      <<"<U+2CD2>", <<"<U+2CD3>">>>>, <<"Ⳓ", <<"ⳓ">>>>,
      <<"<U+2CD4>", <<"<U+2CD5>">>>>, <<"Ⳕ", <<"ⳕ">>>>,
      <<"<U+2CD6>", <<"<U+2CD7>">>>>, <<"Ⳗ", <<"ⳗ">>>>,
      <<"<U+2CD8>", <<"<U+2CD9>">>>>, <<"Ⳙ", <<"ⳙ">>>>,
      <<"<U+2CDA>", <<"<U+2CDB>">>>>, <<"Ⳛ", <<"ⳛ">>>>,
      <<"<U+2CDC>", <<"<U+2CDD>">>>>, <<"Ⳝ", <<"ⳝ">>>>,
      <<"<U+2CDE>", <<"<U+2CDF>">>>>, <<"Ⳟ", <<"ⳟ">>>>,
      <<"<U+2CE0>", <<"<U+2CE1>">>>>, <<"Ⳡ", <<"ⳡ">>>>,
      <<"<U+2CE2>", <<"<U+2CE3>">>>>, <<"Ⳣ", <<"ⳣ">>>>,
      <<"<U+2CEB>", <<"<U+2CEC>">>>>, <<"Ⳬ", <<"ⳬ">>>>,
      <<"<U+2CED>", <<"<U+2CEE>">>>>, <<"Ⳮ", <<"ⳮ">>>>,
      <<"<U+2CF2>", <<"<U+2CF3>">>>>, <<"Ⳳ", <<"ⳳ">>>>,
      <<"<U+A640>", <<"<U+A641>">>>>, <<"<U+A642>", <<"<U+A643>">>>>,
      <<"<U+A644>", <<"<U+A645>">>>>, <<"<U+A646>", <<"<U+A647>">>>>,
      <<"<U+A648>", <<"<U+A649>">>>>, <<"<U+A64A>", <<"<U+A64B>">>>>,
      <<"<U+A64C>", <<"<U+A64D>">>>>, <<"<U+A64E>", <<"<U+A64F>">>>>,
      <<"<U+A650>", <<"<U+A651>">>>>, <<"<U+A652>", <<"<U+A653>">>>>,
      <<"<U+A654>", <<"<U+A655>">>>>, <<"<U+A656>", <<"<U+A657>">>>>,
      <<"<U+A658>", <<"<U+A659>">>>>, <<"<U+A65A>", <<"<U+A65B>">>>>,
      <<"<U+A65C>", <<"<U+A65D>">>>>, <<"<U+A65E>", <<"<U+A65F>">>>>,
      <<"<U+A660>", <<"<U+A661>">>>>, <<"<U+A662>", <<"<U+A663>">>>>,
      <<"<U+A664>", <<"<U+A665>">>>>, <<"<U+A666>", <<"<U+A667>">>>>,
      <<"<U+A668>", <<"<U+A669>">>>>, <<"<U+A66A>", <<"<U+A66B>">>>>,
      <<"<U+A66C>", <<"<U+A66D>">>>>, <<"<U+A680>", <<"<U+A681>">>>>,
      <<"Ꚁ", <<"ꚁ">>>>, <<"<U+A682>", <<"<U+A683>">>>>, <<"Ꚃ", <<"ꚃ">>>>,
      <<"<U+A684>", <<"<U+A685>">>>>, <<"Ꚅ", <<"ꚅ">>>>,
      <<"<U+A686>", <<"<U+A687>">>>>, <<"Ꚇ", <<"ꚇ">>>>,
      <<"<U+A688>", <<"<U+A689>">>>>, <<"Ꚉ", <<"ꚉ">>>>,
      <<"<U+A68A>", <<"<U+A68B>">>>>, <<"Ꚋ", <<"ꚋ">>>>,
      <<"<U+A68C>", <<"<U+A68D>">>>>, <<"Ꚍ", <<"ꚍ">>>>,
      <<"<U+A68E>", <<"<U+A68F>">>>>, <<"Ꚏ", <<"ꚏ">>>>,
      <<"<U+A690>", <<"<U+A691>">>>>, <<"Ꚑ", <<"ꚑ">>>>,
      <<"<U+A692>", <<"<U+A693>">>>>, <<"Ꚓ", <<"ꚓ">>>>,
      <<"<U+A694>", <<"<U+A695>">>>>, <<"Ꚕ", <<"ꚕ">>>>,
      <<"<U+A696>", <<"<U+A697>">>>>, <<"Ꚗ", <<"ꚗ">>>>,
      <<"<U+A698>", <<"<U+A699>">>>>, <<"Ꚙ", <<"ꚙ">>>>,
      <<"<U+A69A>", <<"<U+A69B>">>>>, <<"Ꚛ", <<"ꚛ">>>>,
      <<"<U+A722>", <<"<U+A723>">>>>, <<"<U+A724>", <<"<U+A725>">>>>,
      <<"<U+A726>", <<"<U+A727>">>>>, <<"<U+A728>", <<"<U+A729>">>>>,
      <<"<U+A72A>", <<"<U+A72B>">>>>, <<"<U+A72C>", <<"<U+A72D>">>>>,
      <<"<U+A72E>", <<"<U+A72F>">>>>, <<"<U+A732>", <<"<U+A733>">>>>,
      <<"<U+A734>", <<"<U+A735>">>>>, <<"<U+A736>", <<"<U+A737>">>>>,
      <<"<U+A738>", <<"<U+A739>">>>>, <<"<U+A73A>", <<"<U+A73B>">>>>,
      <<"<U+A73C>", <<"<U+A73D>">>>>, <<"<U+A73E>", <<"<U+A73F>">>>>,
      <<"<U+A740>", <<"<U+A741>">>>>, <<"<U+A742>", <<"<U+A743>">>>>,
      <<"<U+A744>", <<"<U+A745>">>>>, <<"<U+A746>", <<"<U+A747>">>>>,
      <<"<U+A748>", <<"<U+A749>">>>>, <<"<U+A74A>", <<"<U+A74B>">>>>,
      <<"<U+A74C>", <<"<U+A74D>">>>>, <<"<U+A74E>", <<"<U+A74F>">>>>,
      <<"<U+A750>", <<"<U+A751>">>>>, <<"<U+A752>", <<"<U+A753>">>>>,
      <<"<U+A754>", <<"<U+A755>">>>>, <<"<U+A756>", <<"<U+A757>">>>>,
      <<"<U+A758>", <<"<U+A759>">>>>, <<"<U+A75A>", <<"<U+A75B>">>>>,
      <<"<U+A75C>", <<"<U+A75D>">>>>, <<"<U+A75E>", <<"<U+A75F>">>>>,
      <<"<U+A760>", <<"<U+A761>">>>>, <<"<U+A762>", <<"<U+A763>">>>>,
      <<"<U+A764>", <<"<U+A765>">>>>, <<"<U+A766>", <<"<U+A767>">>>>,
      <<"<U+A768>", <<"<U+A769>">>>>, <<"<U+A76A>", <<"<U+A76B>">>>>,
      <<"<U+A76C>", <<"<U+A76D>">>>>, <<"<U+A76E>", <<"<U+A76F>">>>>,
      <<"<U+A779>", <<"<U+A77A>">>>>, <<"<U+A77B>", <<"<U+A77C>">>>>,
      <<"<U+A77D>", <<"<U+1D79>">>>>, <<"<U+A77E>", <<"<U+A77F>">>>>,
      <<"<U+A780>", <<"<U+A781>">>>>, <<"Ꞁ", <<"ꞁ">>>>,
      <<"<U+A782>", <<"<U+A783>">>>>, <<"Ꞃ", <<"ꞃ">>>>,
      <<"<U+A784>", <<"<U+A785>">>>>, <<"Ꞅ", <<"ꞅ">>>>,
      <<"<U+A786>", <<"<U+A787>">>>>, <<"Ꞇ", <<"ꞇ">>>>,
      <<"<U+A78B>", <<"<U+A78C>">>>>, <<"Ꞌ", <<"ꞌ">>>>,
      <<"<U+A78D>", <<"<U+0265>">>>>, <<"Ɥ", <<"<U+0265>">>>>,
      <<"<U+A790>", <<"<U+A791>">>>>, <<"Ꞑ", <<"ꞑ">>>>,
      <<"<U+A792>", <<"<U+A793>">>>>, <<"Ꞓ", <<"ꞓ">>>>,
      <<"<U+A796>", <<"<U+A797>">>>>, <<"Ꞗ", <<"ꞗ">>>>,
      <<"<U+A798>", <<"<U+A799>">>>>, <<"Ꞙ", <<"ꞙ">>>>,
      <<"<U+A79A>", <<"<U+A79B>">>>>, <<"Ꞛ", <<"ꞛ">>>>,
      <<"<U+A79C>", <<"<U+A79D>">>>>, <<"Ꞝ", <<"ꞝ">>>>,
      <<"<U+A79E>", <<"<U+A79F>">>>>, <<"Ꞟ", <<"ꞟ">>>>,
      <<"<U+A7A0>", <<"<U+A7A1>">>>>, <<"Ꞡ", <<"ꞡ">>>>,
      <<"<U+A7A2>", <<"<U+A7A3>">>>>, <<"Ꞣ", <<"ꞣ">>>>,
      <<"<U+A7A4>", <<"<U+A7A5>">>>>, <<"Ꞥ", <<"ꞥ">>>>,
      <<"<U+A7A6>", <<"<U+A7A7>">>>>, <<"Ꞧ", <<"ꞧ">>>>,
      <<"<U+A7A8>", <<"<U+A7A9>">>>>, <<"Ꞩ", <<"ꞩ">>>>,
      <<"<U+A7AA>", <<"<U+0266>">>>>, <<"Ɦ", <<"<U+0266>">>>>,
      <<"<U+A7AB>", <<"<U+025C>">>>>, <<"Ɜ", <<"<U+025C>">>>>,
      <<"<U+A7AC>", <<"<U+0261>">>>>, <<"Ɡ", <<"<U+0261>">>>>,
      <<"<U+A7AD>", <<"<U+026C>">>>>, <<"Ɬ", <<"<U+026C>">>>>,
      <<"<U+A7AE>", <<"<U+026A>">>>>, <<"Ɪ", <<"<U+026A>">>>>,
      <<"<U+A7B0>", <<"<U+029E>">>>>, <<"Ʞ", <<"ʞ">>>>,
      <<"<U+A7B1>", <<"<U+0287>">>>>, <<"Ʇ", <<"ʇ">>>>,
      <<"<U+A7B2>", <<"<U+029D>">>>>, <<"Ʝ", <<"ʝ">>>>,
      <<"<U+A7B3>", <<"<U+AB53>">>>>, <<"Ꭓ", <<"<U+AB53>">>>>,
      <<"<U+A7B4>", <<"<U+A7B5>">>>>, <<"Ꞵ", <<"ꞵ">>>>,
      <<"<U+A7B6>", <<"<U+A7B7>">>>>, <<"Ꞷ", <<"ꞷ">>>>,
      <<"<U+A7B8>", <<"<U+A7B9>">>>>, <<"Ꞹ", <<"ꞹ">>>>,
      <<"<U+A7BA>", <<"<U+A7BB>">>>>, <<"Ꞻ", <<"ꞻ">>>>,
      <<"<U+A7BC>", <<"<U+A7BD>">>>>, <<"Ꞽ", <<"ꞽ">>>>,
      <<"<U+A7BE>", <<"<U+A7BF>">>>>, <<"Ꞿ", <<"ꞿ">>>>,
      <<"<U+A7C0>", <<"<U+A7C1>">>>>, <<"Ꟁ", <<"ꟁ">>>>,
      <<"<U+A7C2>", <<"<U+A7C3>">>>>, <<"Ꟃ", <<"ꟃ">>>>,
      <<"<U+A7C4>", <<"<U+A794>">>>>, <<"Ꞔ", <<"ꞔ">>>>,
      <<"<U+A7C5>", <<"<U+0282>">>>>, <<"Ʂ", <<"ʂ">>>>,
      <<"<U+A7C6>", <<"<U+1D8E>">>>>, <<"Ᶎ", <<"ᶎ">>>>,
      <<"<U+A7C7>", <<"<U+A7C8>">>>>, <<"Ꟈ", <<"ꟈ">>>>,
      <<"<U+A7C9>", <<"<U+A7CA>">>>>, <<"Ꟊ", <<"ꟊ">>>>,
      <<"<U+A7D0>", <<"<U+A7D1>">>>>, <<"Ꟑ", <<"ꟑ">>>>,
      <<"<U+A7D6>", <<"<U+A7D7>">>>>, <<"Ꟗ", <<"ꟗ">>>>,
      <<"<U+A7D8>", <<"<U+A7D9>">>>>, <<"Ꟙ", <<"ꟙ">>>>,
      <<"<U+A7F5>", <<"<U+A7F6>">>>>, <<"Ꟶ", <<"ꟶ">>>>,
      <<"<U+FF21>", <<"<U+FF41>">>>>, <<"<U+FF22>", <<"<U+FF42>">>>>,
      <<"<U+FF23>", <<"<U+FF43>">>>>, <<"<U+FF24>", <<"<U+FF44>">>>>,
      <<"<U+FF25>", <<"<U+FF45>">>>>, <<"<U+FF26>", <<"<U+FF46>">>>>,
      <<"<U+FF27>", <<"<U+FF47>">>>>, <<"<U+FF28>", <<"<U+FF48>">>>>,
      <<"<U+FF29>", <<"<U+FF49>">>>>, <<"<U+FF2A>", <<"<U+FF4A>">>>>,
      <<"<U+FF2B>", <<"<U+FF4B>">>>>, <<"<U+FF2C>", <<"<U+FF4C>">>>>,
      <<"<U+FF2D>", <<"<U+FF4D>">>>>, <<"<U+FF2E>", <<"<U+FF4E>">>>>,
      <<"<U+FF2F>", <<"<U+FF4F>">>>>, <<"<U+FF30>", <<"<U+FF50>">>>>,
      <<"<U+FF31>", <<"<U+FF51>">>>>, <<"<U+FF32>", <<"<U+FF52>">>>>,
      <<"<U+FF33>", <<"<U+FF53>">>>>, <<"<U+FF34>", <<"<U+FF54>">>>>,
      <<"<U+FF35>", <<"<U+FF55>">>>>, <<"<U+FF36>", <<"<U+FF56>">>>>,
      <<"<U+FF37>", <<"<U+FF57>">>>>, <<"<U+FF38>", <<"<U+FF58>">>>>,
      <<"<U+FF39>", <<"<U+FF59>">>>>, <<"<U+FF3A>", <<"<U+FF5A>">>>>,
      <<"<U+10400>", <<"<U+10428>">>>>, <<"<U+10401>", <<"<U+10429>">>>>,
      <<"<U+10402>", <<"<U+1042A>">>>>, <<"<U+10403>", <<"<U+1042B>">>>>,
      <<"<U+10404>", <<"<U+1042C>">>>>, <<"<U+10405>", <<"<U+1042D>">>>>,
      <<"<U+10406>", <<"<U+1042E>">>>>, <<"<U+10407>", <<"<U+1042F>">>>>,
      <<"<U+10408>", <<"<U+10430>">>>>, <<"<U+10409>", <<"<U+10431>">>>>,
      <<"<U+1040A>", <<"<U+10432>">>>>, <<"<U+1040B>", <<"<U+10433>">>>>,
      <<"<U+1040C>", <<"<U+10434>">>>>, <<"<U+1040D>", <<"<U+10435>">>>>,
      <<"<U+1040E>", <<"<U+10436>">>>>, <<"<U+1040F>", <<"<U+10437>">>>>,
      <<"<U+10410>", <<"<U+10438>">>>>, <<"<U+10411>", <<"<U+10439>">>>>,
      <<"<U+10412>", <<"<U+1043A>">>>>, <<"<U+10413>", <<"<U+1043B>">>>>,
      <<"<U+10414>", <<"<U+1043C>">>>>, <<"<U+10415>", <<"<U+1043D>">>>>,
      <<"<U+10416>", <<"<U+1043E>">>>>, <<"<U+10417>", <<"<U+1043F>">>>>,
      <<"<U+10418>", <<"<U+10440>">>>>, <<"<U+10419>", <<"<U+10441>">>>>,
      <<"<U+1041A>", <<"<U+10442>">>>>, <<"<U+1041B>", <<"<U+10443>">>>>,
      <<"<U+1041C>", <<"<U+10444>">>>>, <<"<U+1041D>", <<"<U+10445>">>>>,
      <<"<U+1041E>", <<"<U+10446>">>>>, <<"<U+1041F>", <<"<U+10447>">>>>,
      <<"<U+10420>", <<"<U+10448>">>>>, <<"<U+10421>", <<"<U+10449>">>>>,
      <<"<U+10422>", <<"<U+1044A>">>>>, <<"<U+10423>", <<"<U+1044B>">>>>,
      <<"<U+10424>", <<"<U+1044C>">>>>, <<"<U+10425>", <<"<U+1044D>">>>>,
      <<"<U+10426>", <<"<U+1044E>">>>>, <<"<U+10427>", <<"<U+1044F>">>>>,
      <<"<U+104B0>", <<"<U+104D8>">>>>, <<"<U+104B1>", <<"<U+104D9>">>>>,
      <<"<U+104B2>", <<"<U+104DA>">>>>, <<"<U+104B3>", <<"<U+104DB>">>>>,
      <<"<U+104B4>", <<"<U+104DC>">>>>, <<"<U+104B5>", <<"<U+104DD>">>>>,
      <<"<U+104B6>", <<"<U+104DE>">>>>, <<"<U+104B7>", <<"<U+104DF>">>>>,
      <<"<U+104B8>", <<"<U+104E0>">>>>, <<"<U+104B9>", <<"<U+104E1>">>>>,
      <<"<U+104BA>", <<"<U+104E2>">>>>, <<"<U+104BB>", <<"<U+104E3>">>>>,
      <<"<U+104BC>", <<"<U+104E4>">>>>, <<"<U+104BD>", <<"<U+104E5>">>>>,
      <<"<U+104BE>", <<"<U+104E6>">>>>, <<"<U+104BF>", <<"<U+104E7>">>>>,
      <<"<U+104C0>", <<"<U+104E8>">>>>, <<"<U+104C1>", <<"<U+104E9>">>>>,
      <<"<U+104C2>", <<"<U+104EA>">>>>, <<"<U+104C3>", <<"<U+104EB>">>>>,
      <<"<U+104C4>", <<"<U+104EC>">>>>, <<"<U+104C5>", <<"<U+104ED>">>>>,
      <<"<U+104C6>", <<"<U+104EE>">>>>, <<"<U+104C7>", <<"<U+104EF>">>>>,
      <<"<U+104C8>", <<"<U+104F0>">>>>, <<"<U+104C9>", <<"<U+104F1>">>>>,
      <<"<U+104CA>", <<"<U+104F2>">>>>, <<"<U+104CB>", <<"<U+104F3>">>>>,
      <<"<U+104CC>", <<"<U+104F4>">>>>, <<"<U+104CD>", <<"<U+104F5>">>>>,
      <<"<U+104CE>", <<"<U+104F6>">>>>, <<"<U+104CF>", <<"<U+104F7>">>>>,
      <<"<U+104D0>", <<"<U+104F8>">>>>, <<"<U+104D1>", <<"<U+104F9>">>>>,
      <<"<U+104D2>", <<"<U+104FA>">>>>, <<"<U+104D3>", <<"<U+104FB>">>>>,
      <<"<U+10570>", <<"<U+10597>">>>>, <<"<U+10571>", <<"<U+10598>">>>>,
      <<"<U+10572>", <<"<U+10599>">>>>, <<"<U+10573>", <<"<U+1059A>">>>>,
      <<"<U+10574>", <<"<U+1059B>">>>>, <<"<U+10575>", <<"<U+1059C>">>>>,
      <<"<U+10576>", <<"<U+1059D>">>>>, <<"<U+10577>", <<"<U+1059E>">>>>,
      <<"<U+10578>", <<"<U+1059F>">>>>, <<"<U+10579>", <<"<U+105A0>">>>>,
      <<"<U+1057A>", <<"<U+105A1>">>>>, <<"<U+1057C>", <<"<U+105A3>">>>>,
      <<"<U+1057D>", <<"<U+105A4>">>>>, <<"<U+1057E>", <<"<U+105A5>">>>>,
      <<"<U+1057F>", <<"<U+105A6>">>>>, <<"<U+10580>", <<"<U+105A7>">>>>,
      <<"<U+10581>", <<"<U+105A8>">>>>, <<"<U+10582>", <<"<U+105A9>">>>>,
      <<"<U+10583>", <<"<U+105AA>">>>>, <<"<U+10584>", <<"<U+105AB>">>>>,
      <<"<U+10585>", <<"<U+105AC>">>>>, <<"<U+10586>", <<"<U+105AD>">>>>,
      <<"<U+10587>", <<"<U+105AE>">>>>, <<"<U+10588>", <<"<U+105AF>">>>>,
      <<"<U+10589>", <<"<U+105B0>">>>>, <<"<U+1058A>", <<"<U+105B1>">>>>,
      <<"<U+1058C>", <<"<U+105B3>">>>>, <<"<U+1058D>", <<"<U+105B4>">>>>,
      <<"<U+1058E>", <<"<U+105B5>">>>>, <<"<U+1058F>", <<"<U+105B6>">>>>,
      <<"<U+10590>", <<"<U+105B7>">>>>, <<"<U+10591>", <<"<U+105B8>">>>>,
      <<"<U+10592>", <<"<U+105B9>">>>>, <<"<U+10594>", <<"<U+105BB>">>>>,
      <<"<U+10595>", <<"<U+105BC>">>>>, <<"<U+10C80>", <<"<U+10CC0>">>>>,
      <<"<U+10C81>", <<"<U+10CC1>">>>>, <<"<U+10C82>", <<"<U+10CC2>">>>>,
      <<"<U+10C83>", <<"<U+10CC3>">>>>, <<"<U+10C84>", <<"<U+10CC4>">>>>,
      <<"<U+10C85>", <<"<U+10CC5>">>>>, <<"<U+10C86>", <<"<U+10CC6>">>>>,
      <<"<U+10C87>", <<"<U+10CC7>">>>>, <<"<U+10C88>", <<"<U+10CC8>">>>>,
      <<"<U+10C89>", <<"<U+10CC9>">>>>, <<"<U+10C8A>", <<"<U+10CCA>">>>>,
      <<"<U+10C8B>", <<"<U+10CCB>">>>>, <<"<U+10C8C>", <<"<U+10CCC>">>>>,
      <<"<U+10C8D>", <<"<U+10CCD>">>>>, <<"<U+10C8E>", <<"<U+10CCE>">>>>,
      <<"<U+10C8F>", <<"<U+10CCF>">>>>, <<"<U+10C90>", <<"<U+10CD0>">>>>,
      <<"<U+10C91>", <<"<U+10CD1>">>>>, <<"<U+10C92>", <<"<U+10CD2>">>>>,
      <<"<U+10C93>", <<"<U+10CD3>">>>>, <<"<U+10C94>", <<"<U+10CD4>">>>>,
      <<"<U+10C95>", <<"<U+10CD5>">>>>, <<"<U+10C96>", <<"<U+10CD6>">>>>,
      <<"<U+10C97>", <<"<U+10CD7>">>>>, <<"<U+10C98>", <<"<U+10CD8>">>>>,
      <<"<U+10C99>", <<"<U+10CD9>">>>>, <<"<U+10C9A>", <<"<U+10CDA>">>>>,
      <<"<U+10C9B>", <<"<U+10CDB>">>>>, <<"<U+10C9C>", <<"<U+10CDC>">>>>,
      <<"<U+10C9D>", <<"<U+10CDD>">>>>, <<"<U+10C9E>", <<"<U+10CDE>">>>>,
      <<"<U+10C9F>", <<"<U+10CDF>">>>>, <<"<U+10CA0>", <<"<U+10CE0>">>>>,
      <<"<U+10CA1>", <<"<U+10CE1>">>>>, <<"<U+10CA2>", <<"<U+10CE2>">>>>,
      <<"<U+10CA3>", <<"<U+10CE3>">>>>, <<"<U+10CA4>", <<"<U+10CE4>">>>>,
      <<"<U+10CA5>", <<"<U+10CE5>">>>>, <<"<U+10CA6>", <<"<U+10CE6>">>>>,
      <<"<U+10CA7>", <<"<U+10CE7>">>>>, <<"<U+10CA8>", <<"<U+10CE8>">>>>,
      <<"<U+10CA9>", <<"<U+10CE9>">>>>, <<"<U+10CAA>", <<"<U+10CEA>">>>>,
      <<"<U+10CAB>", <<"<U+10CEB>">>>>, <<"<U+10CAC>", <<"<U+10CEC>">>>>,
      <<"<U+10CAD>", <<"<U+10CED>">>>>, <<"<U+10CAE>", <<"<U+10CEE>">>>>,
      <<"<U+10CAF>", <<"<U+10CEF>">>>>, <<"<U+10CB0>", <<"<U+10CF0>">>>>,
      <<"<U+10CB1>", <<"<U+10CF1>">>>>, <<"<U+10CB2>", <<"<U+10CF2>">>>>,
      <<"<U+118A0>", <<"<U+118C0>">>>>, <<"<U+118A1>", <<"<U+118C1>">>>>,
      <<"<U+118A2>", <<"<U+118C2>">>>>, <<"<U+118A3>", <<"<U+118C3>">>>>,
      <<"<U+118A4>", <<"<U+118C4>">>>>, <<"<U+118A5>", <<"<U+118C5>">>>>,
      <<"<U+118A6>", <<"<U+118C6>">>>>, <<"<U+118A7>", <<"<U+118C7>">>>>,
      <<"<U+118A8>", <<"<U+118C8>">>>>, <<"<U+118A9>", <<"<U+118C9>">>>>,
      <<"<U+118AA>", <<"<U+118CA>">>>>, <<"<U+118AB>", <<"<U+118CB>">>>>,
      <<"<U+118AC>", <<"<U+118CC>">>>>, <<"<U+118AD>", <<"<U+118CD>">>>>,
      <<"<U+118AE>", <<"<U+118CE>">>>>, <<"<U+118AF>", <<"<U+118CF>">>>>,
      <<"<U+118B0>", <<"<U+118D0>">>>>, <<"<U+118B1>", <<"<U+118D1>">>>>,
      <<"<U+118B2>", <<"<U+118D2>">>>>, <<"<U+118B3>", <<"<U+118D3>">>>>,
      <<"<U+118B4>", <<"<U+118D4>">>>>, <<"<U+118B5>", <<"<U+118D5>">>>>,
      <<"<U+118B6>", <<"<U+118D6>">>>>, <<"<U+118B7>", <<"<U+118D7>">>>>,
      <<"<U+118B8>", <<"<U+118D8>">>>>, <<"<U+118B9>", <<"<U+118D9>">>>>,
      <<"<U+118BA>", <<"<U+118DA>">>>>, <<"<U+118BB>", <<"<U+118DB>">>>>,
      <<"<U+118BC>", <<"<U+118DC>">>>>, <<"<U+118BD>", <<"<U+118DD>">>>>,
      <<"<U+118BE>", <<"<U+118DE>">>>>, <<"<U+118BF>", <<"<U+118DF>">>>>,
      <<"<U+16E40>", <<"<U+16E60>">>>>, <<"<U+16E41>", <<"<U+16E61>">>>>,
      <<"<U+16E42>", <<"<U+16E62>">>>>, <<"<U+16E43>", <<"<U+16E63>">>>>,
      <<"<U+16E44>", <<"<U+16E64>">>>>, <<"<U+16E45>", <<"<U+16E65>">>>>,
      <<"<U+16E46>", <<"<U+16E66>">>>>, <<"<U+16E47>", <<"<U+16E67>">>>>,
      <<"<U+16E48>", <<"<U+16E68>">>>>, <<"<U+16E49>", <<"<U+16E69>">>>>,
      <<"<U+16E4A>", <<"<U+16E6A>">>>>, <<"<U+16E4B>", <<"<U+16E6B>">>>>,
      <<"<U+16E4C>", <<"<U+16E6C>">>>>, <<"<U+16E4D>", <<"<U+16E6D>">>>>,
      <<"<U+16E4E>", <<"<U+16E6E>">>>>, <<"<U+16E4F>", <<"<U+16E6F>">>>>,
      <<"<U+16E50>", <<"<U+16E70>">>>>, <<"<U+16E51>", <<"<U+16E71>">>>>,
      <<"<U+16E52>", <<"<U+16E72>">>>>, <<"<U+16E53>", <<"<U+16E73>">>>>,
      <<"<U+16E54>", <<"<U+16E74>">>>>, <<"<U+16E55>", <<"<U+16E75>">>>>,
      <<"<U+16E56>", <<"<U+16E76>">>>>, <<"<U+16E57>", <<"<U+16E77>">>>>,
      <<"<U+16E58>", <<"<U+16E78>">>>>, <<"<U+16E59>", <<"<U+16E79>">>>>,
      <<"<U+16E5A>", <<"<U+16E7A>">>>>, <<"<U+16E5B>", <<"<U+16E7B>">>>>,
      <<"<U+16E5C>", <<"<U+16E7C>">>>>, <<"<U+16E5D>", <<"<U+16E7D>">>>>,
      <<"<U+16E5E>", <<"<U+16E7E>">>>>, <<"<U+16E5F>", <<"<U+16E7F>">>>>,
      <<"<U+1E900>", <<"<U+1E922>">>>>, <<"<U+1E901>", <<"<U+1E923>">>>>,
      <<"<U+1E902>", <<"<U+1E924>">>>>, <<"<U+1E903>", <<"<U+1E925>">>>>,
      <<"<U+1E904>", <<"<U+1E926>">>>>, <<"<U+1E905>", <<"<U+1E927>">>>>,
      <<"<U+1E906>", <<"<U+1E928>">>>>, <<"<U+1E907>", <<"<U+1E929>">>>>,
      <<"<U+1E908>", <<"<U+1E92A>">>>>, <<"<U+1E909>", <<"<U+1E92B>">>>>,
      <<"<U+1E90A>", <<"<U+1E92C>">>>>, <<"<U+1E90B>", <<"<U+1E92D>">>>>,
      <<"<U+1E90C>", <<"<U+1E92E>">>>>, <<"<U+1E90D>", <<"<U+1E92F>">>>>,
      <<"<U+1E90E>", <<"<U+1E930>">>>>, <<"<U+1E90F>", <<"<U+1E931>">>>>,
      <<"<U+1E910>", <<"<U+1E932>">>>>, <<"<U+1E911>", <<"<U+1E933>">>>>,
      <<"<U+1E912>", <<"<U+1E934>">>>>, <<"<U+1E913>", <<"<U+1E935>">>>>,
      <<"<U+1E914>", <<"<U+1E936>">>>>, <<"<U+1E915>", <<"<U+1E937>">>>>,
      <<"<U+1E916>", <<"<U+1E938>">>>>, <<"<U+1E917>", <<"<U+1E939>">>>>,
      <<"<U+1E918>", <<"<U+1E93A>">>>>, <<"<U+1E919>", <<"<U+1E93B>">>>>,
      <<"<U+1E91A>", <<"<U+1E93C>">>>>, <<"<U+1E91B>", <<"<U+1E93D>">>>>,
      <<"<U+1E91C>", <<"<U+1E93E>">>>>, <<"<U+1E91D>", <<"<U+1E93F>">>>>,
      <<"<U+1E91E>", <<"<U+1E940>">>>>, <<"<U+1E91F>", <<"<U+1E941>">>>>,
      <<"<U+1E920>", <<"<U+1E942>">>>>, <<"<U+1E921>", <<"<U+1E943>">>>> }

\* the capital sigma and its two lower cases
Sigmas ==
    { [capital |-> "<U+03A3>", small |-> "<U+03C3>", final |-> "<U+03C2>"],
      [capital |-> "Σ", small |-> "σ", final |-> "ς"] }

\* the case-ignorable characters
CaseIgnorable ==
    {
      "'", ".", ":", "^", "<U+0060>", "<U+00A8>", "¨", "<U+00AD>", "­",
      "<U+00AF>", "¯", "<U+00B4>", "´", "<U+00B7>", "·", "<U+00B8>", "¸",
      "<U+02B0>", "ʰ", "<U+02B1>", "ʱ", "<U+02B2>", "ʲ", "<U+02B3>", "ʳ",
      "<U+02B4>", "ʴ", "<U+02B5>", "ʵ", "<U+02B6>", "ʶ", "<U+02B7>", "ʷ",
      "<U+02B8>", "ʸ", "<U+02B9>", "ʹ", "<U+02BA>", "ʺ", "<U+02BB>", "ʻ",
      "<U+02BC>", "ʼ", "<U+02BD>", "ʽ", "<U+02BE>", "ʾ", "<U+02BF>", "ʿ",
      "<U+02C0>", "ˀ", "<U+02C1>", "ˁ", "<U+02C2>", "˂", "<U+02C3>", "˃",
      "<U+02C4>", "˄", "<U+02C5>", "˅", "<U+02C6>", "ˆ", "<U+02C7>", "ˇ",
      "<U+02C8>", "ˈ", "<U+02C9>", "ˉ", "<U+02CA>", "ˊ", "<U+02CB>", "ˋ",
      "<U+02CC>", "ˌ", "<U+02CD>", "ˍ", "<U+02CE>", "ˎ", "<U+02CF>", "ˏ",
      "<U+02D0>", "ː", "<U+02D1>", "ˑ", "<U+02D2>", "˒", "<U+02D3>", "˓",
      "<U+02D4>", "˔", "<U+02D5>", "˕", "<U+02D6>", "˖", "<U+02D7>", "˗",
      "<U+02D8>", "˘", "<U+02D9>", "˙", "<U+02DA>", "˚", "<U+02DB>", "˛",
      "<U+02DC>", "˜", "<U+02DD>", "˝", "<U+02DE>", "˞", "<U+02DF>", "˟",
      "<U+02E0>", "ˠ", "<U+02E1>", "ˡ", "<U+02E2>", "ˢ", "<U+02E3>", "ˣ",
      "<U+02E4>", "ˤ", "<U+02E5>", "˥", "<U+02E6>", "˦", "<U+02E7>", "˧",
      "<U+02E8>", "˨", "<U+02E9>", "˩", "<U+02EA>", "˪", "<U+02EB>", "˫",
      "<U+02EC>", "ˬ", "<U+02ED>", "˭", "<U+02EE>", "ˮ", "<U+02EF>", "˯",
      "<U+02F0>", "˰", "<U+02F1>", "˱", "<U+02F2>", "˲", "<U+02F3>", "˳",
      "<U+02F4>", "˴", "<U+02F5>", "˵", "<U+02F6>", "˶", "<U+02F7>", "˷",
      "<U+02F8>", "˸", "<U+02F9>", "˹", "<U+02FA>", "˺", "<U+02FB>", "˻",
      "<U+02FC>", "˼", "<U+02FD>", "˽", "<U+02FE>", "˾", "<U+02FF>", "˿",
      "<U+0300>", "<U+0301>", "<U+0302>", "<U+0303>", "<U+0304>",
      "<U+0305>", "<U+0306>", "<U+0307>", "<U+0308>", "<U+0309>",
      "<U+030A>", "<U+030B>", "<U+030C>", "<U+030D>", "<U+030E>",
      "<U+030F>", "<U+0310>", "<U+0311>", "<U+0312>", "<U+0313>",
      "<U+0314>", "<U+0315>", "<U+0316>", "<U+0317>", "<U+0318>",
      "<U+0319>", "<U+031A>", "<U+031B>", "<U+031C>", "<U+031D>",
      "<U+031E>", "<U+031F>", "<U+0320>", "<U+0321>", "<U+0322>",
      "<U+0323>", "<U+0324>", "<U+0325>", "<U+0326>", "<U+0327>",
      "<U+0328>", "<U+0329>", "<U+032A>", "<U+032B>", "<U+032C>",
      "<U+032D>", "<U+032E>", "<U+032F>", "<U+0330>", "<U+0331>",
      "<U+0332>", "<U+0333>", "<U+0334>", "<U+0335>", "<U+0336>",
      "<U+0337>", "<U+0338>", "<U+0339>", "<U+033A>", "<U+033B>",
      "<U+033C>", "<U+033D>", "<U+033E>", "<U+033F>", "<U+0340>",
      "<U+0341>", "<U+0342>", "<U+0343>", "<U+0344>", "<U+0345>",
      "<U+0346>", "<U+0347>", "<U+0348>", "<U+0349>", "<U+034A>",
      "<U+034B>", "<U+034C>", "<U+034D>", "<U+034E>", "<U+034F>",
      "<U+0350>", "<U+0351>", "<U+0352>", "<U+0353>", "<U+0354>",
      "<U+0355>", "<U+0356>", "<U+0357>", "<U+0358>", "<U+0359>",
      "<U+035A>", "<U+035B>", "<U+035C>", "<U+035D>", "<U+035E>",
      "<U+035F>", "<U+0360>", "<U+0361>", "<U+0362>", "<U+0363>",
      "<U+0364>", "<U+0365>", "<U+0366>", "<U+0367>", "<U+0368>",
      "<U+0369>", "<U+036A>", "<U+036B>", "<U+036C>", "<U+036D>",
      "<U+036E>", "<U+036F>", "<U+0374>", "<U+0375>", "<U+037A>",
      "<U+0384>", "΄", "<U+0385>", "΅", "<U+0387>", "·", "<U+0483>", "҃",
      "<U+0484>", "҄", "<U+0485>", "҅", "<U+0486>", "҆", "<U+0487>", "҇",
      "<U+0488>", "҈", "<U+0489>", "҉", "<U+0559>", "<U+055F>", "<U+0591>",
      "֑", "<U+0592>", "֒", "<U+0593>", "֓", "<U+0594>", "֔", "<U+0595>",
      "֕", "<U+0596>", "֖", "<U+0597>", "֗", "<U+0598>", "֘", "<U+0599>",
      "֙", "<U+059A>", "֚", "<U+059B>", "֛", "<U+059C>", "֜", "<U+059D>",
      "֝", "<U+059E>", "֞", "<U+059F>", "֟", "<U+05A0>", "֠", "<U+05A1>",
      "֡", "<U+05A2>", "֢", "<U+05A3>", "֣", "<U+05A4>", "֤", "<U+05A5>",
      "֥", "<U+05A6>", "֦", "<U+05A7>", "֧", "<U+05A8>", "֨", "<U+05A9>",
      "֩", "<U+05AA>", "֪", "<U+05AB>", "֫", "<U+05AC>", "֬", "<U+05AD>",
      "֭", "<U+05AE>", "֮", "<U+05AF>", "֯", "<U+05B0>", "ְ", "<U+05B1>",
      "ֱ", "<U+05B2>", "ֲ", "<U+05B3>", "ֳ", "<U+05B4>", "ִ", "<U+05B5>",
      "ֵ", "<U+05B6>", "ֶ", "<U+05B7>", "ַ", "<U+05B8>", "ָ", "<U+05B9>",
      "ֹ", "<U+05BA>", "ֺ", "<U+05BB>", "ֻ", "<U+05BC>", "ּ", "<U+05BD>",
      "ֽ", "<U+05BF>", "ֿ", "<U+05C1>", "ׁ", "<U+05C2>", "ׂ", "<U+05C4>",
      "ׄ", "<U+05C5>", "ׅ", "<U+05C7>", "ׇ", "<U+05F4>", "״", "<U+0600>",
      "<U+0601>", "<U+0602>", "<U+0603>", "<U+0604>", "<U+0605>",
      "<U+0610>", "<U+0611>", "<U+0612>", "<U+0613>", "<U+0614>",
      "<U+0615>", "<U+0616>", "<U+0617>", "<U+0618>", "<U+0619>",
      "<U+061A>", "<U+061C>", "<U+0640>", "<U+064B>", "<U+064C>",
      "<U+064D>", "<U+064E>", "<U+064F>", "<U+0650>", "<U+0651>",
      "<U+0652>", "<U+0653>", "<U+0654>", "<U+0655>", "<U+0656>",
      "<U+0657>", "<U+0658>", "<U+0659>", "<U+065A>", "<U+065B>",
      "<U+065C>", "<U+065D>", "<U+065E>", "<U+065F>", "<U+0670>",
      "<U+06D6>", "ۖ", "<U+06D7>", "ۗ", "<U+06D8>", "ۘ", "<U+06D9>", "ۙ",
      "<U+06DA>", "ۚ", "<U+06DB>", "ۛ", "<U+06DC>", "ۜ", "<U+06DD>", "۝",
      "<U+06DF>", "۟", "<U+06E0>", "۠", "<U+06E1>", "ۡ", "<U+06E2>", "ۢ",
      "<U+06E3>", "ۣ", "<U+06E4>", "ۤ", "<U+06E5>", "ۥ", "<U+06E6>", "ۦ",
      "<U+06E7>", "ۧ", "<U+06E8>", "ۨ", "<U+06EA>", "۪", "<U+06EB>", "۫",
      "<U+06EC>", "۬", "<U+06ED>", "ۭ", "<U+070F>", "<U+0711>", "<U+0730>",
      "<U+0731>", "<U+0732>", "<U+0733>", "<U+0734>", "<U+0735>",
      "<U+0736>", "<U+0737>", "<U+0738>", "<U+0739>", "<U+073A>",
      "<U+073B>", "<U+073C>", "<U+073D>", "<U+073E>", "<U+073F>",
      "<U+0740>", "<U+0741>", "<U+0742>", "<U+0743>", "<U+0744>",
      "<U+0745>", "<U+0746>", "<U+0747>", "<U+0748>", "<U+0749>",
      "<U+074A>", "<U+07A6>", "ަ", "<U+07A7>", "ާ", "<U+07A8>", "ި",
      "<U+07A9>", "ީ", "<U+07AA>", "ު", "<U+07AB>", "ޫ", "<U+07AC>", "ެ",
      "<U+07AD>", "ޭ", "<U+07AE>", "ޮ", "<U+07AF>", "ޯ", "<U+07B0>", "ް",
      "<U+07EB>", "߫", "<U+07EC>", "߬", "<U+07ED>", "߭", "<U+07EE>", "߮",
      "<U+07EF>", "߯", "<U+07F0>", "߰", "<U+07F1>", "߱", "<U+07F2>", "߲",
      "<U+07F3>", "߳", "<U+07F4>", "ߴ", "<U+07F5>", "ߵ", "<U+07FA>", "ߺ",
      "<U+07FD>", "߽", "<U+0816>", "<U+0817>", "<U+0818>", "<U+0819>",
      "<U+081A>", "<U+081B>", "<U+081C>", "<U+081D>", "<U+081E>",
      "<U+081F>", "<U+0820>", "<U+0821>", "<U+0822>", "<U+0823>",
      "<U+0824>", "<U+0825>", "<U+0826>", "<U+0827>", "<U+0828>",
      "<U+0829>", "<U+082A>", "<U+082B>", "<U+082C>", "<U+082D>",
      "<U+0859>", "<U+085A>", "<U+085B>", "<U+0888>", "࢈", "<U+0890>", "࢐",
      "<U+0891>", "࢑", "<U+0898>", "࢘", "<U+0899>", "࢙", "<U+089A>", "࢚",
      "<U+089B>", "࢛", "<U+089C>", "࢜", "<U+089D>", "࢝", "<U+089E>", "࢞",
      "<U+089F>", "࢟", "<U+08C9>", "ࣉ", "<U+08CA>", "࣊", "<U+08CB>", "࣋",
      "<U+08CC>", "࣌", "<U+08CD>", "࣍", "<U+08CE>", "࣎", "<U+08CF>", "࣏",
      "<U+08D0>", "࣐", "<U+08D1>", "࣑", "<U+08D2>", "࣒", "<U+08D3>", "࣓",
      "<U+08D4>", "ࣔ", "<U+08D5>", "ࣕ", "<U+08D6>", "ࣖ", "<U+08D7>", "ࣗ",
      "<U+08D8>", "ࣘ", "<U+08D9>", "ࣙ", "<U+08DA>", "ࣚ", "<U+08DB>", "ࣛ",
      "<U+08DC>", "ࣜ", "<U+08DD>", "ࣝ", "<U+08DE>", "ࣞ", "<U+08DF>", "ࣟ",
      "<U+08E0>", "࣠", "<U+08E1>", "࣡", "<U+08E2>", "࣢", "<U+08E3>", "ࣣ",
      "<U+08E4>", "ࣤ", "<U+08E5>", "ࣥ", "<U+08E6>", "ࣦ", "<U+08E7>", "ࣧ",
      "<U+08E8>", "ࣨ", "<U+08E9>", "ࣩ", "<U+08EA>", "࣪", "<U+08EB>", "࣫",
      "<U+08EC>", "࣬", "<U+08ED>", "࣭", "<U+08EE>", "࣮", "<U+08EF>", "࣯",
      "<U+08F0>", "ࣰ", "<U+08F1>", "ࣱ", "<U+08F2>", "ࣲ", "<U+08F3>", "ࣳ",
      "<U+08F4>", "ࣴ", "<U+08F5>", "ࣵ", "<U+08F6>", "ࣶ", "<U+08F7>", "ࣷ",
      "<U+08F8>", "ࣸ", "<U+08F9>", "ࣹ", "<U+08FA>", "ࣺ", "<U+08FB>", "ࣻ",
      "<U+08FC>", "ࣼ", "<U+08FD>", "ࣽ", "<U+08FE>", "ࣾ", "<U+08FF>", "ࣿ",
      "<U+0900>", "<U+0901>", "<U+0902>", "<U+093A>", "<U+093C>",
      "<U+0941>", "<U+0942>", "<U+0943>", "<U+0944>", "<U+0945>",
      "<U+0946>", "<U+0947>", "<U+0948>", "<U+094D>", "<U+0951>",
      "<U+0952>", "<U+0953>", "<U+0954>", "<U+0955>", "<U+0956>",
      "<U+0957>", "<U+0962>", "<U+0963>", "<U+0971>", "<U+0981>", "ঁ",
      "<U+09BC>", "়", "<U+09C1>", "ু", "<U+09C2>", "ূ", "<U+09C3>", "ৃ",
      "<U+09C4>", "ৄ", "<U+09CD>", "্", "<U+09E2>", "ৢ", "<U+09E3>", "ৣ",
      "<U+09FE>", "৾", "<U+0A01>", "<U+0A02>", "<U+0A3C>", "<U+0A41>",
      "<U+0A42>", "<U+0A47>", "<U+0A48>", "<U+0A4B>", "<U+0A4C>",
      "<U+0A4D>", "<U+0A51>", "<U+0A70>", "<U+0A71>", "<U+0A75>",
      "<U+0A81>", "ઁ", "<U+0A82>", "ં", "<U+0ABC>", "઼", "<U+0AC1>", "ુ",
      "<U+0AC2>", "ૂ", "<U+0AC3>", "ૃ", "<U+0AC4>", "ૄ", "<U+0AC5>", "ૅ",
      "<U+0AC7>", "ે", "<U+0AC8>", "ૈ", "<U+0ACD>", "્", "<U+0AE2>", "ૢ",
      "<U+0AE3>", "ૣ", "<U+0AFA>", "ૺ", "<U+0AFB>", "ૻ", "<U+0AFC>", "ૼ",
      "<U+0AFD>", "૽", "<U+0AFE>", "૾", "<U+0AFF>", "૿", "<U+0B01>",
      "<U+0B3C>", "<U+0B3F>", "<U+0B41>", "<U+0B42>", "<U+0B43>",
      "<U+0B44>", "<U+0B4D>", "<U+0B55>", "<U+0B56>", "<U+0B62>",
      "<U+0B63>", "<U+0B82>", "ஂ", "<U+0BC0>", "ீ", "<U+0BCD>", "்",
      "<U+0C00>", "<U+0C04>", "<U+0C3C>", "<U+0C3E>", "<U+0C3F>",
      "<U+0C40>", "<U+0C46>", "<U+0C47>", "<U+0C48>", "<U+0C4A>",
      "<U+0C4B>", "<U+0C4C>", "<U+0C4D>", "<U+0C55>", "<U+0C56>",
      "<U+0C62>", "<U+0C63>", "<U+0C81>", "ಁ", "<U+0CBC>", "಼", "<U+0CBF>",
      "ಿ", "<U+0CC6>", "ೆ", "<U+0CCC>", "ೌ", "<U+0CCD>", "್", "<U+0CE2>",
      "ೢ", "<U+0CE3>", "ೣ", "<U+0D00>", "<U+0D01>", "<U+0D3B>", "<U+0D3C>",
      "<U+0D41>", "<U+0D42>", "<U+0D43>", "<U+0D44>", "<U+0D4D>",
      "<U+0D62>", "<U+0D63>", "<U+0D81>", "ඁ", "<U+0DCA>", "්", "<U+0DD2>",
      "ි", "<U+0DD3>", "ී", "<U+0DD4>", "ු", "<U+0DD6>", "ූ", "<U+0E31>",
      "<U+0E34>", "<U+0E35>", "<U+0E36>", "<U+0E37>", "<U+0E38>",
      "<U+0E39>", "<U+0E3A>", "<U+0E46>", "<U+0E47>", "<U+0E48>",
      "<U+0E49>", "<U+0E4A>", "<U+0E4B>", "<U+0E4C>", "<U+0E4D>",
      "<U+0E4E>", "<U+0EB1>", "ັ", "<U+0EB4>", "ິ", "<U+0EB5>", "ີ",
      "<U+0EB6>", "ຶ", "<U+0EB7>", "ື", "<U+0EB8>", "ຸ", "<U+0EB9>", "ູ",
      "<U+0EBA>", "຺", "<U+0EBB>", "ົ", "<U+0EBC>", "ຼ", "<U+0EC6>", "ໆ",
      "<U+0EC8>", "່", "<U+0EC9>", "້", "<U+0ECA>", "໊", "<U+0ECB>", "໋",
      "<U+0ECC>", "໌", "<U+0ECD>", "ໍ", "<U+0F18>", "<U+0F19>", "<U+0F35>",
      "<U+0F37>", "<U+0F39>", "<U+0F71>", "<U+0F72>", "<U+0F73>",
      "<U+0F74>", "<U+0F75>", "<U+0F76>", "<U+0F77>", "<U+0F78>",
      "<U+0F79>", "<U+0F7A>", "<U+0F7B>", "<U+0F7C>", "<U+0F7D>",
      "<U+0F7E>", "<U+0F80>", "ྀ", "<U+0F81>", "ཱྀ", "<U+0F82>", "ྂ",
      "<U+0F83>", "ྃ", "<U+0F84>", "྄", "<U+0F86>", "྆", "<U+0F87>", "྇",
      "<U+0F8D>", "ྍ", "<U+0F8E>", "ྎ", "<U+0F8F>", "ྏ", "<U+0F90>", "ྐ",
      "<U+0F91>", "ྑ", "<U+0F92>", "ྒ", "<U+0F93>", "ྒྷ", "<U+0F94>", "ྔ",
      "<U+0F95>", "ྕ", "<U+0F96>", "ྖ", "<U+0F97>", "ྗ", "<U+0F99>", "ྙ",
      "<U+0F9A>", "ྚ", "<U+0F9B>", "ྛ", "<U+0F9C>", "ྜ", "<U+0F9D>", "ྜྷ",
      "<U+0F9E>", "ྞ", "<U+0F9F>", "ྟ", "<U+0FA0>", "ྠ", "<U+0FA1>", "ྡ",
      "<U+0FA2>", "ྡྷ", "<U+0FA3>", "ྣ", "<U+0FA4>", "ྤ", "<U+0FA5>", "ྥ",
      "<U+0FA6>", "ྦ", "<U+0FA7>", "ྦྷ", "<U+0FA8>", "ྨ", "<U+0FA9>", "ྩ",
      "<U+0FAA>", "ྪ", "<U+0FAB>", "ྫ", "<U+0FAC>", "ྫྷ", "<U+0FAD>", "ྭ",
      "<U+0FAE>", "ྮ", "<U+0FAF>", "ྯ", "<U+0FB0>", "ྰ", "<U+0FB1>", "ྱ",
      "<U+0FB2>", "ྲ", "<U+0FB3>", "ླ", "<U+0FB4>", "ྴ", "<U+0FB5>", "ྵ",
      "<U+0FB6>", "ྶ", "<U+0FB7>", "ྷ", "<U+0FB8>", "ྸ", "<U+0FB9>", "ྐྵ",
      "<U+0FBA>", "ྺ", "<U+0FBB>", "ྻ", "<U+0FBC>", "ྼ", "<U+0FC6>", "࿆",
      "<U+102D>", "<U+102E>", "<U+102F>", "<U+1030>", "<U+1032>",
      "<U+1033>", "<U+1034>", "<U+1035>", "<U+1036>", "<U+1037>",
      "<U+1039>", "<U+103A>", "<U+103D>", "<U+103E>", "<U+1058>",
      "<U+1059>", "<U+105E>", "<U+105F>", "<U+1060>", "<U+1071>",
      "<U+1072>", "<U+1073>", "<U+1074>", "<U+1082>", "ႂ", "<U+1085>", "ႅ",
      "<U+1086>", "ႆ", "<U+108D>", "ႍ", "<U+109D>", "ႝ", "<U+10FC>", "ჼ",
      "<U+135D>", "<U+135E>", "<U+135F>", "<U+1712>", "<U+1713>",
      "<U+1714>", "<U+1732>", "<U+1733>", "<U+1752>", "<U+1753>",
      "<U+1772>", "<U+1773>", "<U+17B4>", "឴", "<U+17B5>", "឵", "<U+17B7>",
      "ិ", "<U+17B8>", "ី", "<U+17B9>", "ឹ", "<U+17BA>", "ឺ", "<U+17BB>",
      "ុ", "<U+17BC>", "ូ", "<U+17BD>", "ួ", "<U+17C6>", "ំ", "<U+17C9>",
      "៉", "<U+17CA>", "៊", "<U+17CB>", "់", "<U+17CC>", "៌", "<U+17CD>",
      "៍", "<U+17CE>", "៎", "<U+17CF>", "៏", "<U+17D0>", "័", "<U+17D1>",
      "៑", "<U+17D2>", "្", "<U+17D3>", "៓", "<U+17D7>", "ៗ", "<U+17DD>",
      "៝", "<U+180B>", "<U+180C>", "<U+180D>", "<U+180E>", "<U+180F>",
      "<U+1843>", "<U+1885>", "ᢅ", "<U+1886>", "ᢆ", "<U+18A9>", "ᢩ",
      "<U+1920>", "<U+1921>", "<U+1922>", "<U+1927>", "<U+1928>",
      "<U+1932>", "<U+1939>", "<U+193A>", "<U+193B>", "<U+1A17>",
      "<U+1A18>", "<U+1A1B>", "<U+1A56>", "<U+1A58>", "<U+1A59>",
      "<U+1A5A>", "<U+1A5B>", "<U+1A5C>", "<U+1A5D>", "<U+1A5E>",
      "<U+1A60>", "<U+1A62>", "<U+1A65>", "<U+1A66>", "<U+1A67>",
      "<U+1A68>", "<U+1A69>", "<U+1A6A>", "<U+1A6B>", "<U+1A6C>",
      "<U+1A73>", "<U+1A74>", "<U+1A75>", "<U+1A76>", "<U+1A77>",
      "<U+1A78>", "<U+1A79>", "<U+1A7A>", "<U+1A7B>", "<U+1A7C>",
      "<U+1A7F>", "<U+1AA7>", "ᪧ", "<U+1AB0>", "᪰", "<U+1AB1>", "᪱",
      "<U+1AB2>", "᪲", "<U+1AB3>", "᪳", "<U+1AB4>", "᪴", "<U+1AB5>", "᪵",
      "<U+1AB6>", "᪶", "<U+1AB7>", "᪷", "<U+1AB8>", "᪸", "<U+1AB9>", "᪹",
      "<U+1ABA>", "᪺", "<U+1ABB>", "᪻", "<U+1ABC>", "᪼", "<U+1ABD>", "᪽",
      "<U+1ABE>", "᪾", "<U+1ABF>", "ᪿ", "<U+1AC0>", "ᫀ", "<U+1AC1>", "᫁",
      "<U+1AC2>", "᫂", "<U+1AC3>", "᫃", "<U+1AC4>", "᫄", "<U+1AC5>", "᫅",
      "<U+1AC6>", "᫆", "<U+1AC7>", "᫇", "<U+1AC8>", "᫈", "<U+1AC9>", "᫉",
      "<U+1ACA>", "᫊", "<U+1ACB>", "᫋", "<U+1ACC>", "ᫌ", "<U+1ACD>", "ᫍ",
      "<U+1ACE>", "ᫎ", "<U+1B00>", "<U+1B01>", "<U+1B02>", "<U+1B03>",
      "<U+1B34>", "<U+1B36>", "<U+1B37>", "<U+1B38>", "<U+1B39>",
      "<U+1B3A>", "<U+1B3C>", "<U+1B42>", "<U+1B6B>", "<U+1B6C>",
      "<U+1B6D>", "<U+1B6E>", "<U+1B6F>", "<U+1B70>", "<U+1B71>",
      "<U+1B72>", "<U+1B73>", "<U+1B80>", "ᮀ", "<U+1B81>", "ᮁ", "<U+1BA2>",
      "ᮢ", "<U+1BA3>", "ᮣ", "<U+1BA4>", "ᮤ", "<U+1BA5>", "ᮥ", "<U+1BA8>",
      "ᮨ", "<U+1BA9>", "ᮩ", "<U+1BAB>", "᮫", "<U+1BAC>", "ᮬ", "<U+1BAD>",
      "ᮭ", "<U+1BE6>", "᯦", "<U+1BE8>", "ᯨ", "<U+1BE9>", "ᯩ", "<U+1BED>",
      "ᯭ", "<U+1BEF>", "ᯯ", "<U+1BF0>", "ᯰ", "<U+1BF1>", "ᯱ", "<U+1C2C>",
      "<U+1C2D>", "<U+1C2E>", "<U+1C2F>", "<U+1C30>", "<U+1C31>",
      "<U+1C32>", "<U+1C33>", "<U+1C36>", "<U+1C37>", "<U+1C78>",
      "<U+1C79>", "<U+1C7A>", "<U+1C7B>", "<U+1C7C>", "<U+1C7D>",
      "<U+1CD0>", "᳐", "<U+1CD1>", "᳑", "<U+1CD2>", "᳒", "<U+1CD4>", "᳔",
      "<U+1CD5>", "᳕", "<U+1CD6>", "᳖", "<U+1CD7>", "᳗", "<U+1CD8>", "᳘",
      "<U+1CD9>", "᳙", "<U+1CDA>", "᳚", "<U+1CDB>", "᳛", "<U+1CDC>", "᳜",
      "<U+1CDD>", "᳝", "<U+1CDE>", "᳞", "<U+1CDF>", "᳟", "<U+1CE0>", "᳠",
      "<U+1CE2>", "᳢", "<U+1CE3>", "᳣", "<U+1CE4>", "᳤", "<U+1CE5>", "᳥",
      "<U+1CE6>", "᳦", "<U+1CE7>", "᳧", "<U+1CE8>", "᳨", "<U+1CED>", "᳭",
      "<U+1CF4>", "᳴", "<U+1CF8>", "᳸", "<U+1CF9>", "᳹", "<U+1D2C>",
      "<U+1D2D>", "<U+1D2E>", "<U+1D2F>", "<U+1D30>", "<U+1D31>",
      "<U+1D32>", "<U+1D33>", "<U+1D34>", "<U+1D35>", "<U+1D36>",
      "<U+1D37>", "<U+1D38>", "<U+1D39>", "<U+1D3A>", "<U+1D3B>",
      "<U+1D3C>", "<U+1D3D>", "<U+1D3E>", "<U+1D3F>", "<U+1D40>",
      "<U+1D41>", "<U+1D42>", "<U+1D43>", "<U+1D44>", "<U+1D45>",
      "<U+1D46>", "<U+1D47>", "<U+1D48>", "<U+1D49>", "<U+1D4A>",
      "<U+1D4B>", "<U+1D4C>", "<U+1D4D>", "<U+1D4E>", "<U+1D4F>",
      "<U+1D50>", "<U+1D51>", "<U+1D52>", "<U+1D53>", "<U+1D54>",
      "<U+1D55>", "<U+1D56>", "<U+1D57>", "<U+1D58>", "<U+1D59>",
      "<U+1D5A>", "<U+1D5B>", "<U+1D5C>", "<U+1D5D>", "<U+1D5E>",
      "<U+1D5F>", "<U+1D60>", "<U+1D61>", "<U+1D62>", "<U+1D63>",
      "<U+1D64>", "<U+1D65>", "<U+1D66>", "<U+1D67>", "<U+1D68>",
      "<U+1D69>", "<U+1D6A>", "<U+1D78>", "<U+1D9B>", "ᶛ", "<U+1D9C>", "ᶜ",
      "<U+1D9D>", "ᶝ", "<U+1D9E>", "ᶞ", "<U+1D9F>", "ᶟ", "<U+1DA0>", "ᶠ",
      "<U+1DA1>", "ᶡ", "<U+1DA2>", "ᶢ", "<U+1DA3>", "ᶣ", "<U+1DA4>", "ᶤ",
      "<U+1DA5>", "ᶥ", "<U+1DA6>", "ᶦ", "<U+1DA7>", "ᶧ", "<U+1DA8>", "ᶨ",
      "<U+1DA9>", "ᶩ", "<U+1DAA>", "ᶪ", "<U+1DAB>", "ᶫ", "<U+1DAC>", "ᶬ",
      "<U+1DAD>", "ᶭ", "<U+1DAE>", "ᶮ", "<U+1DAF>", "ᶯ", "<U+1DB0>", "ᶰ",
      "<U+1DB1>", "ᶱ", "<U+1DB2>", "ᶲ", "<U+1DB3>", "ᶳ", "<U+1DB4>", "ᶴ",
      "<U+1DB5>", "ᶵ", "<U+1DB6>", "ᶶ", "<U+1DB7>", "ᶷ", "<U+1DB8>", "ᶸ",
      "<U+1DB9>", "ᶹ", "<U+1DBA>", "ᶺ", "<U+1DBB>", "ᶻ", "<U+1DBC>", "ᶼ",
      "<U+1DBD>", "ᶽ", "<U+1DBE>", "ᶾ", "<U+1DBF>", "ᶿ", "<U+1DC0>", "᷀",
      "<U+1DC1>", "᷁", "<U+1DC2>", "᷂", "<U+1DC3>", "᷃", "<U+1DC4>", "᷄",
      "<U+1DC5>", "᷅", "<U+1DC6>", "᷆", "<U+1DC7>", "᷇", "<U+1DC8>", "᷈",
      "<U+1DC9>", "᷉", "<U+1DCA>", "᷊", "<U+1DCB>", "᷋", "<U+1DCC>", "᷌",
      "<U+1DCD>", "᷍", "<U+1DCE>", "᷎", "<U+1DCF>", "᷏", "<U+1DD0>", "᷐",
      "<U+1DD1>", "᷑", "<U+1DD2>", "᷒", "<U+1DD3>", "ᷓ", "<U+1DD4>", "ᷔ",
      "<U+1DD5>", "ᷕ", "<U+1DD6>", "ᷖ", "<U+1DD7>", "ᷗ", "<U+1DD8>", "ᷘ",
      "<U+1DD9>", "ᷙ", "<U+1DDA>", "ᷚ", "<U+1DDB>", "ᷛ", "<U+1DDC>", "ᷜ",
      "<U+1DDD>", "ᷝ", "<U+1DDE>", "ᷞ", "<U+1DDF>", "ᷟ", "<U+1DE0>", "ᷠ",
      "<U+1DE1>", "ᷡ", "<U+1DE2>", "ᷢ", "<U+1DE3>", "ᷣ", "<U+1DE4>", "ᷤ",
      "<U+1DE5>", "ᷥ", "<U+1DE6>", "ᷦ", "<U+1DE7>", "ᷧ", "<U+1DE8>", "ᷨ",
      "<U+1DE9>", "ᷩ", "<U+1DEA>", "ᷪ", "<U+1DEB>", "ᷫ", "<U+1DEC>", "ᷬ",
      "<U+1DED>", "ᷭ", "<U+1DEE>", "ᷮ", "<U+1DEF>", "ᷯ", "<U+1DF0>", "ᷰ",
      "<U+1DF1>", "ᷱ", "<U+1DF2>", "ᷲ", "<U+1DF3>", "ᷳ", "<U+1DF4>", "ᷴ",
      "<U+1DF5>", "᷵", "<U+1DF6>", "᷶", "<U+1DF7>", "᷷", "<U+1DF8>", "᷸",
      "<U+1DF9>", "᷹", "<U+1DFA>", "᷺", "<U+1DFB>", "᷻", "<U+1DFC>", "᷼",
      "<U+1DFD>", "᷽", "<U+1DFE>", "᷾", "<U+1DFF>", "᷿", "<U+1FBD>", "᾽",
      "<U+1FBF>", "᾿", "<U+1FC0>", "῀", "<U+1FC1>", "῁", "<U+1FCD>", "῍",
      "<U+1FCE>", "῎", "<U+1FCF>", "῏", "<U+1FDD>", "῝", "<U+1FDE>", "῞",
      "<U+1FDF>", "῟", "<U+1FED>", "῭", "<U+1FEE>", "΅", "<U+1FEF>", "`",
      "<U+1FFD>", "´", "<U+1FFE>", "῾", "<U+200B>", "<U+200C>", "<U+200D>",
      "<U+200E>", "<U+200F>", "<U+2018>", "<U+2019>", "<U+2024>",
      "<U+2027>", "<U+202A>", "<U+202B>", "<U+202C>", "<U+202D>",
      "<U+202E>", "<U+2060>", "<U+2061>", "<U+2062>", "<U+2063>",
      "<U+2064>", "<U+2066>", "<U+2067>", "<U+2068>", "<U+2069>",
      "<U+206A>", "<U+206B>", "<U+206C>", "<U+206D>", "<U+206E>",
      "<U+206F>", "<U+2071>", "<U+207F>", "<U+2090>", "ₐ", "<U+2091>", "ₑ",
      "<U+2092>", "ₒ", "<U+2093>", "ₓ", "<U+2094>", "ₔ", "<U+2095>", "ₕ",
      "<U+2096>", "ₖ", "<U+2097>", "ₗ", "<U+2098>", "ₘ", "<U+2099>", "ₙ",
      "<U+209A>", "ₚ", "<U+209B>", "ₛ", "<U+209C>", "ₜ", "<U+20D0>", "⃐",
      "<U+20D1>", "⃑", "<U+20D2>", "⃒", "<U+20D3>", "⃓", "<U+20D4>", "⃔",
      "<U+20D5>", "⃕", "<U+20D6>", "⃖", "<U+20D7>", "⃗", "<U+20D8>", "⃘",
      "<U+20D9>", "⃙", "<U+20DA>", "⃚", "<U+20DB>", "⃛", "<U+20DC>", "⃜",
      "<U+20DD>", "⃝", "<U+20DE>", "⃞", "<U+20DF>", "⃟", "<U+20E0>", "⃠",
      "<U+20E1>", "⃡", "<U+20E2>", "⃢", "<U+20E3>", "⃣", "<U+20E4>", "⃤",
      "<U+20E5>", "⃥", "<U+20E6>", "⃦", "<U+20E7>", "⃧", "<U+20E8>", "⃨",
      "<U+20E9>", "⃩", "<U+20EA>", "⃪", "<U+20EB>", "⃫", "<U+20EC>", "⃬",
      "<U+20ED>", "⃭", "<U+20EE>", "⃮", "<U+20EF>", "⃯", "<U+20F0>", "⃰",
      "<U+2C7C>", "<U+2C7D>", "<U+2CEF>", "⳯", "<U+2CF0>", "⳰", "<U+2CF1>",
      "⳱", "<U+2D6F>", "<U+2D7F>", "<U+2DE0>", "ⷠ", "<U+2DE1>", "ⷡ",
      "<U+2DE2>", "ⷢ", "<U+2DE3>", "ⷣ", "<U+2DE4>", "ⷤ", "<U+2DE5>", "ⷥ",
      "<U+2DE6>", "ⷦ", "<U+2DE7>", "ⷧ", "<U+2DE8>", "ⷨ", "<U+2DE9>", "ⷩ",
      "<U+2DEA>", "ⷪ", "<U+2DEB>", "ⷫ", "<U+2DEC>", "ⷬ", "<U+2DED>", "ⷭ",
      "<U+2DEE>", "ⷮ", "<U+2DEF>", "ⷯ", "<U+2DF0>", "ⷰ", "<U+2DF1>", "ⷱ",
      "<U+2DF2>", "ⷲ", "<U+2DF3>", "ⷳ", "<U+2DF4>", "ⷴ", "<U+2DF5>", "ⷵ",
      "<U+2DF6>", "ⷶ", "<U+2DF7>", "ⷷ", "<U+2DF8>", "ⷸ", "<U+2DF9>", "ⷹ",
      "<U+2DFA>", "ⷺ", "<U+2DFB>", "ⷻ", "<U+2DFC>", "ⷼ", "<U+2DFD>", "ⷽ",
      "<U+2DFE>", "ⷾ", "<U+2DFF>", "ⷿ", "<U+2E2F>", "<U+3005>", "<U+302A>",
      "<U+302B>", "<U+302C>", "<U+302D>", "<U+3031>", "<U+3032>",
      "<U+3033>", "<U+3034>", "<U+3035>", "<U+303B>", "<U+3099>", "゙",
      "<U+309A>", "゚", "<U+309B>", "゛", "<U+309C>", "゜", "<U+309D>", "ゝ",
      "<U+309E>", "ゞ", "<U+30FC>", "ー", "<U+30FD>", "ヽ", "<U+30FE>", "ヾ",
      "<U+A015>", "<U+A4F8>", "ꓸ", "<U+A4F9>", "ꓹ", "<U+A4FA>", "ꓺ",
      "<U+A4FB>", "ꓻ", "<U+A4FC>", "ꓼ", "<U+A4FD>", "ꓽ", "<U+A60C>",
      "<U+A66F>", "<U+A670>", "<U+A671>", "<U+A672>", "<U+A674>",
      "<U+A675>", "<U+A676>", "<U+A677>", "<U+A678>", "<U+A679>",
      "<U+A67A>", "<U+A67B>", "<U+A67C>", "<U+A67D>", "<U+A67F>",
      "<U+A69C>", "ꚜ", "<U+A69D>", "ꚝ", "<U+A69E>", "ꚞ", "<U+A69F>", "ꚟ",
      "<U+A6F0>", "꛰", "<U+A6F1>", "꛱", "<U+A700>", "<U+A701>", "<U+A702>",
      "<U+A703>", "<U+A704>", "<U+A705>", "<U+A706>", "<U+A707>",
      "<U+A708>", "<U+A709>", "<U+A70A>", "<U+A70B>", "<U+A70C>",
      "<U+A70D>", "<U+A70E>", "<U+A70F>", "<U+A710>", "<U+A711>",
      "<U+A712>", "<U+A713>", "<U+A714>", "<U+A715>", "<U+A716>",
      "<U+A717>", "<U+A718>", "<U+A719>", "<U+A71A>", "<U+A71B>",
      "<U+A71C>", "<U+A71D>", "<U+A71E>", "<U+A71F>", "<U+A720>",
      "<U+A721>", "<U+A770>", "<U+A788>", "ꞈ", "<U+A789>", "꞉", "<U+A78A>",
      "꞊", "<U+A7F2>", "ꟲ", "<U+A7F3>", "ꟳ", "<U+A7F4>", "ꟴ", "<U+A7F8>",
      "ꟸ", "<U+A7F9>", "ꟹ", "<U+A802>", "<U+A806>", "<U+A80B>", "<U+A825>",
      "<U+A826>", "<U+A82C>", "<U+A8C4>", "꣄", "<U+A8C5>", "ꣅ", "<U+A8E0>",
      "꣠", "<U+A8E1>", "꣡", "<U+A8E2>", "꣢", "<U+A8E3>", "꣣", "<U+A8E4>",
      "꣤", "<U+A8E5>", "꣥", "<U+A8E6>", "꣦", "<U+A8E7>", "꣧", "<U+A8E8>",
      "꣨", "<U+A8E9>", "꣩", "<U+A8EA>", "꣪", "<U+A8EB>", "꣫", "<U+A8EC>",
      "꣬", "<U+A8ED>", "꣭", "<U+A8EE>", "꣮", "<U+A8EF>", "꣯", "<U+A8F0>",
      "꣰", "<U+A8F1>", "꣱", "<U+A8FF>", "ꣿ", "<U+A926>", "<U+A927>",
      "<U+A928>", "<U+A929>", "<U+A92A>", "<U+A92B>", "<U+A92C>",
      "<U+A92D>", "<U+A947>", "<U+A948>", "<U+A949>", "<U+A94A>",
      "<U+A94B>", "<U+A94C>", "<U+A94D>", "<U+A94E>", "<U+A94F>",
      "<U+A950>", "<U+A951>", "<U+A980>", "ꦀ", "<U+A981>", "ꦁ", "<U+A982>",
      "ꦂ", "<U+A9B3>", "꦳", "<U+A9B6>", "ꦶ", "<U+A9B7>", "ꦷ", "<U+A9B8>",
      "ꦸ", "<U+A9B9>", "ꦹ", "<U+A9BC>", "ꦼ", "<U+A9BD>", "ꦽ", "<U+A9CF>",
      "ꧏ", "<U+A9E5>", "ꧥ", "<U+A9E6>", "ꧦ", "<U+AA29>", "<U+AA2A>",
      "<U+AA2B>", "<U+AA2C>", "<U+AA2D>", "<U+AA2E>", "<U+AA31>",
      "<U+AA32>", "<U+AA35>", "<U+AA36>", "<U+AA43>", "<U+AA4C>",
      "<U+AA70>", "<U+AA7C>", "<U+AAB0>", "ꪰ", "<U+AAB2>", "ꪲ", "<U+AAB3>",
      "ꪳ", "<U+AAB4>", "ꪴ", "<U+AAB7>", "ꪷ", "<U+AAB8>", "ꪸ", "<U+AABE>",
      "ꪾ", "<U+AABF>", "꪿", "<U+AAC1>", "꫁", "<U+AADD>", "ꫝ", "<U+AAEC>",
      "ꫬ", "<U+AAED>", "ꫭ", "<U+AAF3>", "ꫳ", "<U+AAF4>", "ꫴ", "<U+AAF6>",
      "꫶", "<U+AB5B>", "<U+AB5C>", "<U+AB5D>", "<U+AB5E>", "<U+AB5F>",
      "<U+AB69>", "<U+AB6A>", "<U+AB6B>", "<U+ABE5>", "ꯥ", "<U+ABE8>", "ꯨ",
      "<U+ABED>", "꯭", "<U+FB1E>", "<U+FBB2>", "﮲", "<U+FBB3>", "﮳",
      "<U+FBB4>", "﮴", "<U+FBB5>", "﮵", "<U+FBB6>", "﮶", "<U+FBB7>", "﮷",
      "<U+FBB8>", "﮸", "<U+FBB9>", "﮹", "<U+FBBA>", "﮺", "<U+FBBB>", "﮻",
      "<U+FBBC>", "﮼", "<U+FBBD>", "﮽", "<U+FBBE>", "﮾", "<U+FBBF>", "﮿",
      "<U+FBC0>", "﯀", "<U+FBC1>", "﯁", "<U+FBC2>", "﯂", "<U+FE00>",
      "<U+FE01>", "<U+FE02>", "<U+FE03>", "<U+FE04>", "<U+FE05>",
      "<U+FE06>", "<U+FE07>", "<U+FE08>", "<U+FE09>", "<U+FE0A>",
      "<U+FE0B>", "<U+FE0C>", "<U+FE0D>", "<U+FE0E>", "<U+FE0F>",
      "<U+FE13>", "<U+FE20>", "<U+FE21>", "<U+FE22>", "<U+FE23>",
      "<U+FE24>", "<U+FE25>", "<U+FE26>", "<U+FE27>", "<U+FE28>",
      "<U+FE29>", "<U+FE2A>", "<U+FE2B>", "<U+FE2C>", "<U+FE2D>",
      "<U+FE2E>", "<U+FE2F>", "<U+FE52>", "<U+FE55>", "<U+FEFF>", "﻿",
      "<U+FF07>", "<U+FF0E>", "<U+FF1A>", "<U+FF3E>", "<U+FF40>",
      "<U+FF70>", "<U+FF9E>", "ﾞ", "<U+FF9F>", "ﾟ", "<U+FFE3>", "￣",
      "<U+FFF9>", "￹", "<U+FFFA>", "￺", "<U+FFFB>", "￻", "<U+101FD>",
      "<U+102E0>", "<U+10376>", "<U+10377>", "<U+10378>", "<U+10379>",
      "<U+1037A>", "<U+10780>", "<U+10781>", "<U+10782>", "<U+10783>",
      "<U+10784>", "<U+10785>", "<U+10787>", "<U+10788>", "<U+10789>",
      "<U+1078A>", "<U+1078B>", "<U+1078C>", "<U+1078D>", "<U+1078E>",
      "<U+1078F>", "<U+10790>", "<U+10791>", "<U+10792>", "<U+10793>",
      "<U+10794>", "<U+10795>", "<U+10796>", "<U+10797>", "<U+10798>",
      "<U+10799>", "<U+1079A>", "<U+1079B>", "<U+1079C>", "<U+1079D>",
      "<U+1079E>", "<U+1079F>", "<U+107A0>", "<U+107A1>", "<U+107A2>",
      "<U+107A3>", "<U+107A4>", "<U+107A5>", "<U+107A6>", "<U+107A7>",
      "<U+107A8>", "<U+107A9>", "<U+107AA>", "<U+107AB>", "<U+107AC>",
      "<U+107AD>", "<U+107AE>", "<U+107AF>", "<U+107B0>", "<U+107B2>",
      "<U+107B3>", "<U+107B4>", "<U+107B5>", "<U+107B6>", "<U+107B7>",
      "<U+107B8>", "<U+107B9>", "<U+107BA>", "<U+10A01>", "<U+10A02>",
      "<U+10A03>", "<U+10A05>", "<U+10A06>", "<U+10A0C>", "<U+10A0D>",
      "<U+10A0E>", "<U+10A0F>", "<U+10A38>", "<U+10A39>", "<U+10A3A>",
      "<U+10A3F>", "<U+10AE5>", "<U+10AE6>", "<U+10D24>", "<U+10D25>",
      "<U+10D26>", "<U+10D27>", "<U+10EAB>", "<U+10EAC>", "<U+10F46>",
      "<U+10F47>", "<U+10F48>", "<U+10F49>", "<U+10F4A>", "<U+10F4B>",
      "<U+10F4C>", "<U+10F4D>", "<U+10F4E>", "<U+10F4F>", "<U+10F50>",
      "<U+10F82>", "<U+10F83>", "<U+10F84>", "<U+10F85>", "<U+11001>",
      "<U+11038>", "<U+11039>", "<U+1103A>", "<U+1103B>", "<U+1103C>",
      "<U+1103D>", "<U+1103E>", "<U+1103F>", "<U+11040>", "<U+11041>",
      "<U+11042>", "<U+11043>", "<U+11044>", "<U+11045>", "<U+11046>",
      "<U+11070>", "<U+11073>", "<U+11074>", "<U+1107F>", "<U+11080>",
      "<U+11081>", "<U+110B3>", "<U+110B4>", "<U+110B5>", "<U+110B6>",
      "<U+110B9>", "<U+110BA>", "<U+110BD>", "<U+110C2>", "<U+110CD>",
      "<U+11100>", "<U+11101>", "<U+11102>", "<U+11127>", "<U+11128>",
      "<U+11129>", "<U+1112A>", "<U+1112B>", "<U+1112D>", "<U+1112E>",
      "<U+1112F>", "<U+11130>", "<U+11131>", "<U+11132>", "<U+11133>",
      "<U+11134>", "<U+11173>", "<U+11180>", "<U+11181>", "<U+111B6>",
      "<U+111B7>", "<U+111B8>", "<U+111B9>", "<U+111BA>", "<U+111BB>",
      "<U+111BC>", "<U+111BD>", "<U+111BE>", "<U+111C9>", "<U+111CA>",
      "<U+111CB>", "<U+111CC>", "<U+111CF>", "<U+1122F>", "<U+11230>",
      "<U+11231>", "<U+11234>", "<U+11236>", "<U+11237>", "<U+1123E>",
      "<U+112DF>", "<U+112E3>", "<U+112E4>", "<U+112E5>", "<U+112E6>",
      "<U+112E7>", "<U+112E8>", "<U+112E9>", "<U+112EA>", "<U+11300>",
      "<U+11301>", "<U+1133B>", "<U+1133C>", "<U+11340>", "<U+11366>",
      "<U+11367>", "<U+11368>", "<U+11369>", "<U+1136A>", "<U+1136B>",
      "<U+1136C>", "<U+11370>", "<U+11371>", "<U+11372>", "<U+11373>",
      "<U+11374>", "<U+11438>", "<U+11439>", "<U+1143A>", "<U+1143B>",
      "<U+1143C>", "<U+1143D>", "<U+1143E>", "<U+1143F>", "<U+11442>",
      "<U+11443>", "<U+11444>", "<U+11446>", "<U+1145E>", "<U+114B3>",
      "<U+114B4>", "<U+114B5>", "<U+114B6>", "<U+114B7>", "<U+114B8>",
      "<U+114BA>", "<U+114BF>", "<U+114C0>", "<U+114C2>", "<U+114C3>",
      "<U+115B2>", "<U+115B3>", "<U+115B4>", "<U+115B5>", "<U+115BC>",
      "<U+115BD>", "<U+115BF>", "<U+115C0>", "<U+115DC>", "<U+115DD>",
      "<U+11633>", "<U+11634>", "<U+11635>", "<U+11636>", "<U+11637>",
      "<U+11638>", "<U+11639>", "<U+1163A>", "<U+1163D>", "<U+1163F>",
      "<U+11640>", "<U+116AB>", "<U+116AD>", "<U+116B0>", "<U+116B1>",
      "<U+116B2>", "<U+116B3>", "<U+116B4>", "<U+116B5>", "<U+116B7>",
      "<U+1171D>", "<U+1171E>", "<U+1171F>", "<U+11722>", "<U+11723>",
      "<U+11724>", "<U+11725>", "<U+11727>", "<U+11728>", "<U+11729>",
      "<U+1172A>", "<U+1172B>", "<U+1182F>", "<U+11830>", "<U+11831>",
      "<U+11832>", "<U+11833>", "<U+11834>", "<U+11835>", "<U+11836>",
      "<U+11837>", "<U+11839>", "<U+1183A>", "<U+1193B>", "<U+1193C>",
      "<U+1193E>", "<U+11943>", "<U+119D4>", "<U+119D5>", "<U+119D6>",
      "<U+119D7>", "<U+119DA>", "<U+119DB>", "<U+119E0>", "<U+11A01>",
      "<U+11A02>", "<U+11A03>", "<U+11A04>", "<U+11A05>", "<U+11A06>",
      "<U+11A07>", "<U+11A08>", "<U+11A09>", "<U+11A0A>", "<U+11A33>",
      "<U+11A34>", "<U+11A35>", "<U+11A36>", "<U+11A37>", "<U+11A38>",
      "<U+11A3B>", "<U+11A3C>", "<U+11A3D>", "<U+11A3E>", "<U+11A47>",
      "<U+11A51>", "<U+11A52>", "<U+11A53>", "<U+11A54>", "<U+11A55>",
      "<U+11A56>", "<U+11A59>", "<U+11A5A>", "<U+11A5B>", "<U+11A8A>",
      "<U+11A8B>", "<U+11A8C>", "<U+11A8D>", "<U+11A8E>", "<U+11A8F>",
      "<U+11A90>", "<U+11A91>", "<U+11A92>", "<U+11A93>", "<U+11A94>",
      "<U+11A95>", "<U+11A96>", "<U+11A98>", "<U+11A99>", "<U+11C30>",
      "<U+11C31>", "<U+11C32>", "<U+11C33>", "<U+11C34>", "<U+11C35>",
      "<U+11C36>", "<U+11C38>", "<U+11C39>", "<U+11C3A>", "<U+11C3B>",
      "<U+11C3C>", "<U+11C3D>", "<U+11C3F>", "<U+11C92>", "<U+11C93>",
      "<U+11C94>", "<U+11C95>", "<U+11C96>", "<U+11C97>", "<U+11C98>",
      "<U+11C99>", "<U+11C9A>", "<U+11C9B>", "<U+11C9C>", "<U+11C9D>",
      "<U+11C9E>", "<U+11C9F>", "<U+11CA0>", "<U+11CA1>", "<U+11CA2>",
      "<U+11CA3>", "<U+11CA4>", "<U+11CA5>", "<U+11CA6>", "<U+11CA7>",
      "<U+11CAA>", "<U+11CAB>", "<U+11CAC>", "<U+11CAD>", "<U+11CAE>",
      "<U+11CAF>", "<U+11CB0>", "<U+11CB2>", "<U+11CB3>", "<U+11CB5>",
      "<U+11CB6>", "<U+11D31>", "<U+11D32>", "<U+11D33>", "<U+11D34>",
      "<U+11D35>", "<U+11D36>", "<U+11D3A>", "<U+11D3C>", "<U+11D3D>",
      "<U+11D3F>", "<U+11D40>", "<U+11D41>", "<U+11D42>", "<U+11D43>",
      "<U+11D44>", "<U+11D45>", "<U+11D47>", "<U+11D90>", "<U+11D91>",
      "<U+11D95>", "<U+11D97>", "<U+11EF3>", "<U+11EF4>", "<U+13430>",
      "<U+13431>", "<U+13432>", "<U+13433>", "<U+13434>", "<U+13435>",
      "<U+13436>", "<U+13437>", "<U+13438>", "<U+16AF0>", "<U+16AF1>",
      "<U+16AF2>", "<U+16AF3>", "<U+16AF4>", "<U+16B30>", "<U+16B31>",
      "<U+16B32>", "<U+16B33>", "<U+16B34>", "<U+16B35>", "<U+16B36>",
      "<U+16B40>", "<U+16B41>", "<U+16B42>", "<U+16B43>", "<U+16F4F>",
      "<U+16F8F>", "<U+16F90>", "<U+16F91>", "<U+16F92>", "<U+16F93>",
      "<U+16F94>", "<U+16F95>", "<U+16F96>", "<U+16F97>", "<U+16F98>",
      "<U+16F99>", "<U+16F9A>", "<U+16F9B>", "<U+16F9C>", "<U+16F9D>",
      "<U+16F9E>", "<U+16F9F>", "<U+16FE0>", "<U+16FE1>", "<U+16FE3>",
      "<U+16FE4>", "<U+1AFF0>", "<U+1AFF1>", "<U+1AFF2>", "<U+1AFF3>",
      "<U+1AFF5>", "<U+1AFF6>", "<U+1AFF7>", "<U+1AFF8>", "<U+1AFF9>",
      "<U+1AFFA>", "<U+1AFFB>", "<U+1AFFD>", "<U+1AFFE>", "<U+1BC9D>",
      "<U+1BC9E>", "<U+1BCA0>", "<U+1BCA1>", "<U+1BCA2>", "<U+1BCA3>",
      "<U+1CF00>", "<U+1CF01>", "<U+1CF02>", "<U+1CF03>", "<U+1CF04>",
      "<U+1CF05>", "<U+1CF06>", "<U+1CF07>", "<U+1CF08>", "<U+1CF09>",
      "<U+1CF0A>", "<U+1CF0B>", "<U+1CF0C>", "<U+1CF0D>", "<U+1CF0E>",
      "<U+1CF0F>", "<U+1CF10>", "<U+1CF11>", "<U+1CF12>", "<U+1CF13>",
      "<U+1CF14>", "<U+1CF15>", "<U+1CF16>", "<U+1CF17>", "<U+1CF18>",
      "<U+1CF19>", "<U+1CF1A>", "<U+1CF1B>", "<U+1CF1C>", "<U+1CF1D>",
      "<U+1CF1E>", "<U+1CF1F>", "<U+1CF20>", "<U+1CF21>", "<U+1CF22>",
      "<U+1CF23>", "<U+1CF24>", "<U+1CF25>", "<U+1CF26>", "<U+1CF27>",
      "<U+1CF28>", "<U+1CF29>", "<U+1CF2A>", "<U+1CF2B>", "<U+1CF2C>",
      "<U+1CF2D>", "<U+1CF30>", "<U+1CF31>", "<U+1CF32>", "<U+1CF33>",
      "<U+1CF34>", "<U+1CF35>", "<U+1CF36>", "<U+1CF37>", "<U+1CF38>",
      "<U+1CF39>", "<U+1CF3A>", "<U+1CF3B>", "<U+1CF3C>", "<U+1CF3D>",
      "<U+1CF3E>", "<U+1CF3F>", "<U+1CF40>", "<U+1CF41>", "<U+1CF42>",
      "<U+1CF43>", "<U+1CF44>", "<U+1CF45>", "<U+1CF46>", "<U+1D167>",
      "<U+1D168>", "<U+1D169>", "<U+1D173>", "<U+1D174>", "<U+1D175>",
      "<U+1D176>", "<U+1D177>", "<U+1D178>", "<U+1D179>", "<U+1D17A>",
      "<U+1D17B>", "<U+1D17C>", "<U+1D17D>", "<U+1D17E>", "<U+1D17F>",
      "<U+1D180>", "<U+1D181>", "<U+1D182>", "<U+1D185>", "<U+1D186>",
      "<U+1D187>", "<U+1D188>", "<U+1D189>", "<U+1D18A>", "<U+1D18B>",
      "<U+1D1AA>", "<U+1D1AB>", "<U+1D1AC>", "<U+1D1AD>", "<U+1D242>",
      "<U+1D243>", "<U+1D244>", "<U+1DA00>", "<U+1DA01>", "<U+1DA02>",
      "<U+1DA03>", "<U+1DA04>", "<U+1DA05>", "<U+1DA06>", "<U+1DA07>",
      "<U+1DA08>", "<U+1DA09>", "<U+1DA0A>", "<U+1DA0B>", "<U+1DA0C>",
      "<U+1DA0D>", "<U+1DA0E>", "<U+1DA0F>", "<U+1DA10>", "<U+1DA11>",
      "<U+1DA12>", "<U+1DA13>", "<U+1DA14>", "<U+1DA15>", "<U+1DA16>",
      "<U+1DA17>", "<U+1DA18>", "<U+1DA19>", "<U+1DA1A>", "<U+1DA1B>",
      "<U+1DA1C>", "<U+1DA1D>", "<U+1DA1E>", "<U+1DA1F>", "<U+1DA20>",
      "<U+1DA21>", "<U+1DA22>", "<U+1DA23>", "<U+1DA24>", "<U+1DA25>",
      "<U+1DA26>", "<U+1DA27>", "<U+1DA28>", "<U+1DA29>", "<U+1DA2A>",
      "<U+1DA2B>", "<U+1DA2C>", "<U+1DA2D>", "<U+1DA2E>", "<U+1DA2F>",
      "<U+1DA30>", "<U+1DA31>", "<U+1DA32>", "<U+1DA33>", "<U+1DA34>",
      "<U+1DA35>", "<U+1DA36>", "<U+1DA3B>", "<U+1DA3C>", "<U+1DA3D>",
      "<U+1DA3E>", "<U+1DA3F>", "<U+1DA40>", "<U+1DA41>", "<U+1DA42>",
      "<U+1DA43>", "<U+1DA44>", "<U+1DA45>", "<U+1DA46>", "<U+1DA47>",
      "<U+1DA48>", "<U+1DA49>", "<U+1DA4A>", "<U+1DA4B>", "<U+1DA4C>",
      "<U+1DA4D>", "<U+1DA4E>", "<U+1DA4F>", "<U+1DA50>", "<U+1DA51>",
      "<U+1DA52>", "<U+1DA53>", "<U+1DA54>", "<U+1DA55>", "<U+1DA56>",
      "<U+1DA57>", "<U+1DA58>", "<U+1DA59>", "<U+1DA5A>", "<U+1DA5B>",
      "<U+1DA5C>", "<U+1DA5D>", "<U+1DA5E>", "<U+1DA5F>", "<U+1DA60>",
      "<U+1DA61>", "<U+1DA62>", "<U+1DA63>", "<U+1DA64>", "<U+1DA65>",
      "<U+1DA66>", "<U+1DA67>", "<U+1DA68>", "<U+1DA69>", "<U+1DA6A>",
      "<U+1DA6B>", "<U+1DA6C>", "<U+1DA75>", "<U+1DA84>", "<U+1DA9B>",
      "<U+1DA9C>", "<U+1DA9D>", "<U+1DA9E>", "<U+1DA9F>", "<U+1DAA1>",
      "<U+1DAA2>", "<U+1DAA3>", "<U+1DAA4>", "<U+1DAA5>", "<U+1DAA6>",
      "<U+1DAA7>", "<U+1DAA8>", "<U+1DAA9>", "<U+1DAAA>", "<U+1DAAB>",
      "<U+1DAAC>", "<U+1DAAD>", "<U+1DAAE>", "<U+1DAAF>", "<U+1E000>",
      "<U+1E001>", "<U+1E002>", "<U+1E003>", "<U+1E004>", "<U+1E005>",
      "<U+1E006>", "<U+1E008>", "<U+1E009>", "<U+1E00A>", "<U+1E00B>",
      "<U+1E00C>", "<U+1E00D>", "<U+1E00E>", "<U+1E00F>", "<U+1E010>",
      "<U+1E011>", "<U+1E012>", "<U+1E013>", "<U+1E014>", "<U+1E015>",
      "<U+1E016>", "<U+1E017>", "<U+1E018>", "<U+1E01B>", "<U+1E01C>",
      "<U+1E01D>", "<U+1E01E>", "<U+1E01F>", "<U+1E020>", "<U+1E021>",
      "<U+1E023>", "<U+1E024>", "<U+1E026>", "<U+1E027>", "<U+1E028>",
      "<U+1E029>", "<U+1E02A>", "<U+1E130>", "<U+1E131>", "<U+1E132>",
      "<U+1E133>", "<U+1E134>", "<U+1E135>", "<U+1E136>", "<U+1E137>",
      "<U+1E138>", "<U+1E139>", "<U+1E13A>", "<U+1E13B>", "<U+1E13C>",
      "<U+1E13D>", "<U+1E2AE>", "<U+1E2EC>", "<U+1E2ED>", "<U+1E2EE>",
      "<U+1E2EF>", "<U+1E8D0>", "<U+1E8D1>", "<U+1E8D2>", "<U+1E8D3>",
      "<U+1E8D4>", "<U+1E8D5>", "<U+1E8D6>", "<U+1E944>", "<U+1E945>",
      "<U+1E946>", "<U+1E947>", "<U+1E948>", "<U+1E949>", "<U+1E94A>",
      "<U+1E94B>", "<U+1F3FB>", "<U+1F3FC>", "<U+1F3FD>", "<U+1F3FE>",
      "<U+1F3FF>", "<U+E0001>", "<U+E0020>", "<U+E0021>", "<U+E0022>",
      "<U+E0023>", "<U+E0024>", "<U+E0025>", "<U+E0026>", "<U+E0027>",
      "<U+E0028>", "<U+E0029>", "<U+E002A>", "<U+E002B>", "<U+E002C>",
      "<U+E002D>", "<U+E002E>", "<U+E002F>", "<U+E0030>", "<U+E0031>",
      "<U+E0032>", "<U+E0033>", "<U+E0034>", "<U+E0035>", "<U+E0036>",
      "<U+E0037>", "<U+E0038>", "<U+E0039>", "<U+E003A>", "<U+E003B>",
      "<U+E003C>", "<U+E003D>", "<U+E003E>", "<U+E003F>", "<U+E0040>",
      "<U+E0041>", "<U+E0042>", "<U+E0043>", "<U+E0044>", "<U+E0045>",
      "<U+E0046>", "<U+E0047>", "<U+E0048>", "<U+E0049>", "<U+E004A>",
      "<U+E004B>", "<U+E004C>", "<U+E004D>", "<U+E004E>", "<U+E004F>",
      "<U+E0050>", "<U+E0051>", "<U+E0052>", "<U+E0053>", "<U+E0054>",
      "<U+E0055>", "<U+E0056>", "<U+E0057>", "<U+E0058>", "<U+E0059>",
      "<U+E005A>", "<U+E005B>", "<U+E005C>", "<U+E005D>", "<U+E005E>",
      "<U+E005F>", "<U+E0060>", "<U+E0061>", "<U+E0062>", "<U+E0063>",
      "<U+E0064>", "<U+E0065>", "<U+E0066>", "<U+E0067>", "<U+E0068>",
      "<U+E0069>", "<U+E006A>", "<U+E006B>", "<U+E006C>", "<U+E006D>",
      "<U+E006E>", "<U+E006F>", "<U+E0070>", "<U+E0071>", "<U+E0072>",
      "<U+E0073>", "<U+E0074>", "<U+E0075>", "<U+E0076>", "<U+E0077>",
      "<U+E0078>", "<U+E0079>", "<U+E007A>", "<U+E007B>", "<U+E007C>",
      "<U+E007D>", "<U+E007E>", "<U+E007F>", "<U+E0100>", "<U+E0101>",
      "<U+E0102>", "<U+E0103>", "<U+E0104>", "<U+E0105>", "<U+E0106>",
      "<U+E0107>", "<U+E0108>", "<U+E0109>", "<U+E010A>", "<U+E010B>",
      "<U+E010C>", "<U+E010D>", "<U+E010E>", "<U+E010F>", "<U+E0110>",
      "<U+E0111>", "<U+E0112>", "<U+E0113>", "<U+E0114>", "<U+E0115>",
      "<U+E0116>", "<U+E0117>", "<U+E0118>", "<U+E0119>", "<U+E011A>",
      "<U+E011B>", "<U+E011C>", "<U+E011D>", "<U+E011E>", "<U+E011F>",
      "<U+E0120>", "<U+E0121>", "<U+E0122>", "<U+E0123>", "<U+E0124>",
      "<U+E0125>", "<U+E0126>", "<U+E0127>", "<U+E0128>", "<U+E0129>",
      "<U+E012A>", "<U+E012B>", "<U+E012C>", "<U+E012D>", "<U+E012E>",
      "<U+E012F>", "<U+E0130>", "<U+E0131>", "<U+E0132>", "<U+E0133>",
      "<U+E0134>", "<U+E0135>", "<U+E0136>", "<U+E0137>", "<U+E0138>",
      "<U+E0139>", "<U+E013A>", "<U+E013B>", "<U+E013C>", "<U+E013D>",
      "<U+E013E>", "<U+E013F>", "<U+E0140>", "<U+E0141>", "<U+E0142>",
      "<U+E0143>", "<U+E0144>", "<U+E0145>", "<U+E0146>", "<U+E0147>",
      "<U+E0148>", "<U+E0149>", "<U+E014A>", "<U+E014B>", "<U+E014C>",
      "<U+E014D>", "<U+E014E>", "<U+E014F>", "<U+E0150>", "<U+E0151>",
      "<U+E0152>", "<U+E0153>", "<U+E0154>", "<U+E0155>", "<U+E0156>",
      "<U+E0157>", "<U+E0158>", "<U+E0159>", "<U+E015A>", "<U+E015B>",
      "<U+E015C>", "<U+E015D>", "<U+E015E>", "<U+E015F>", "<U+E0160>",
      "<U+E0161>", "<U+E0162>", "<U+E0163>", "<U+E0164>", "<U+E0165>",
      "<U+E0166>", "<U+E0167>", "<U+E0168>", "<U+E0169>", "<U+E016A>",
      "<U+E016B>", "<U+E016C>", "<U+E016D>", "<U+E016E>", "<U+E016F>",
      "<U+E0170>", "<U+E0171>", "<U+E0172>", "<U+E0173>", "<U+E0174>",
      "<U+E0175>", "<U+E0176>", "<U+E0177>", "<U+E0178>", "<U+E0179>",
      "<U+E017A>", "<U+E017B>", "<U+E017C>", "<U+E017D>", "<U+E017E>",
      "<U+E017F>", "<U+E0180>", "<U+E0181>", "<U+E0182>", "<U+E0183>",
      "<U+E0184>", "<U+E0185>", "<U+E0186>", "<U+E0187>", "<U+E0188>",
      "<U+E0189>", "<U+E018A>", "<U+E018B>", "<U+E018C>", "<U+E018D>",
      "<U+E018E>", "<U+E018F>", "<U+E0190>", "<U+E0191>", "<U+E0192>",
      "<U+E0193>", "<U+E0194>", "<U+E0195>", "<U+E0196>", "<U+E0197>",
      "<U+E0198>", "<U+E0199>", "<U+E019A>", "<U+E019B>", "<U+E019C>",
      "<U+E019D>", "<U+E019E>", "<U+E019F>", "<U+E01A0>", "<U+E01A1>",
      "<U+E01A2>", "<U+E01A3>", "<U+E01A4>", "<U+E01A5>", "<U+E01A6>",
      "<U+E01A7>", "<U+E01A8>", "<U+E01A9>", "<U+E01AA>", "<U+E01AB>",
      "<U+E01AC>", "<U+E01AD>", "<U+E01AE>", "<U+E01AF>", "<U+E01B0>",
      "<U+E01B1>", "<U+E01B2>", "<U+E01B3>", "<U+E01B4>", "<U+E01B5>",
      "<U+E01B6>", "<U+E01B7>", "<U+E01B8>", "<U+E01B9>", "<U+E01BA>",
      "<U+E01BB>", "<U+E01BC>", "<U+E01BD>", "<U+E01BE>", "<U+E01BF>",
      "<U+E01C0>", "<U+E01C1>", "<U+E01C2>", "<U+E01C3>", "<U+E01C4>",
      "<U+E01C5>", "<U+E01C6>", "<U+E01C7>", "<U+E01C8>", "<U+E01C9>",
      "<U+E01CA>", "<U+E01CB>", "<U+E01CC>", "<U+E01CD>", "<U+E01CE>",
      "<U+E01CF>", "<U+E01D0>", "<U+E01D1>", "<U+E01D2>", "<U+E01D3>",
      "<U+E01D4>", "<U+E01D5>", "<U+E01D6>", "<U+E01D7>", "<U+E01D8>",
      "<U+E01D9>", "<U+E01DA>", "<U+E01DB>", "<U+E01DC>", "<U+E01DD>",
      "<U+E01DE>", "<U+E01DF>", "<U+E01E0>", "<U+E01E1>", "<U+E01E2>",
      "<U+E01E3>", "<U+E01E4>", "<U+E01E5>", "<U+E01E6>", "<U+E01E7>",
      "<U+E01E8>", "<U+E01E9>", "<U+E01EA>", "<U+E01EB>", "<U+E01EC>",
      "<U+E01ED>", "<U+E01EE>", "<U+E01EF>" }

\* the cased characters that are not case-ignorable
CasedNotIgnorable ==
    {
      "A", "B", "C", "D", "E", "F", "G", "H", "I", "J", "K", "L", "M", "N",
      "O", "P", "Q", "R", "S", "T", "U", "V", "W", "X", "Y", "Z", "a", "b",
      "c", "d", "e", "f", "g", "h", "i", "j", "k", "l", "m", "n", "o", "p",
      "q", "r", "s", "t", "u", "v", "w", "x", "y", "z", "<U+00AA>", "ª",
      "<U+00B5>", "µ", "<U+00BA>", "º", "<U+00C0>", "À", "<U+00C1>", "Á",
      "<U+00C2>", "Â", "<U+00C3>", "Ã", "<U+00C4>", "Ä", "<U+00C5>", "Å",
      "<U+00C6>", "Æ", "<U+00C7>", "Ç", "<U+00C8>", "È", "<U+00C9>", "É",
      "<U+00CA>", "Ê", "<U+00CB>", "Ë", "<U+00CC>", "Ì", "<U+00CD>", "Í",
      "<U+00CE>", "Î", "<U+00CF>", "Ï", "<U+00D0>", "Ð", "<U+00D1>", "Ñ",
      "<U+00D2>", "Ò", "<U+00D3>", "Ó", "<U+00D4>", "Ô", "<U+00D5>", "Õ",
      "<U+00D6>", "Ö", "<U+00D8>", "Ø", "<U+00D9>", "Ù", "<U+00DA>", "Ú",
      "<U+00DB>", "Û", "<U+00DC>", "Ü", "<U+00DD>", "Ý", "<U+00DE>", "Þ",
      "<U+00DF>", "ß", "<U+00E0>", "à", "<U+00E1>", "á", "<U+00E2>", "â",
      "<U+00E3>", "ã", "<U+00E4>", "ä", "<U+00E5>", "å", "<U+00E6>", "æ",
      "<U+00E7>", "ç", "<U+00E8>", "è", "<U+00E9>", "é", "<U+00EA>", "ê",
      "<U+00EB>", "ë", "<U+00EC>", "ì", "<U+00ED>", "í", "<U+00EE>", "î",
      "<U+00EF>", "ï", "<U+00F0>", "ð", "<U+00F1>", "ñ", "<U+00F2>", "ò",
      "<U+00F3>", "ó", "<U+00F4>", "ô", "<U+00F5>", "õ", "<U+00F6>", "ö",
      "<U+00F8>", "ø", "<U+00F9>", "ù", "<U+00FA>", "ú", "<U+00FB>", "û",
      "<U+00FC>", "ü", "<U+00FD>", "ý", "<U+00FE>", "þ", "<U+00FF>", "ÿ",
      "<U+0100>", "<U+0101>", "<U+0102>", "<U+0103>", "<U+0104>",
      "<U+0105>", "<U+0106>", "<U+0107>", "<U+0108>", "<U+0109>",
      "<U+010A>", "<U+010B>", "<U+010C>", "<U+010D>", "<U+010E>",
      "<U+010F>", "<U+0110>", "<U+0111>", "<U+0112>", "<U+0113>",
      "<U+0114>", "<U+0115>", "<U+0116>", "<U+0117>", "<U+0118>",
      "<U+0119>", "<U+011A>", "<U+011B>", "<U+011C>", "<U+011D>",
      "<U+011E>", "<U+011F>", "<U+0120>", "<U+0121>", "<U+0122>",
      "<U+0123>", "<U+0124>", "<U+0125>", "<U+0126>", "<U+0127>",
      "<U+0128>", "<U+0129>", "<U+012A>", "<U+012B>", "<U+012C>",
      "<U+012D>", "<U+012E>", "<U+012F>", "<U+0130>", "<U+0131>",
      "<U+0132>", "<U+0133>", "<U+0134>", "<U+0135>", "<U+0136>",
      "<U+0137>", "<U+0138>", "<U+0139>", "<U+013A>", "<U+013B>",
      "<U+013C>", "<U+013D>", "<U+013E>", "<U+013F>", "<U+0140>",
      "<U+0141>", "<U+0142>", "<U+0143>", "<U+0144>", "<U+0145>",
      "<U+0146>", "<U+0147>", "<U+0148>", "<U+0149>", "<U+014A>",
      "<U+014B>", "<U+014C>", "<U+014D>", "<U+014E>", "<U+014F>",
      "<U+0150>", "<U+0151>", "<U+0152>", "<U+0153>", "<U+0154>",
      "<U+0155>", "<U+0156>", "<U+0157>", "<U+0158>", "<U+0159>",
      "<U+015A>", "<U+015B>", "<U+015C>", "<U+015D>", "<U+015E>",
      "<U+015F>", "<U+0160>", "<U+0161>", "<U+0162>", "<U+0163>",
      "<U+0164>", "<U+0165>", "<U+0166>", "<U+0167>", "<U+0168>",
      "<U+0169>", "<U+016A>", "<U+016B>", "<U+016C>", "<U+016D>",
      "<U+016E>", "<U+016F>", "<U+0170>", "<U+0171>", "<U+0172>",
      "<U+0173>", "<U+0174>", "<U+0175>", "<U+0176>", "<U+0177>",
      "<U+0178>", "<U+0179>", "<U+017A>", "<U+017B>", "<U+017C>",
      "<U+017D>", "<U+017E>", "<U+017F>", "<U+0180>", "ƀ", "<U+0181>", "Ɓ",
      "<U+0182>", "Ƃ", "<U+0183>", "ƃ", "<U+0184>", "Ƅ", "<U+0185>", "ƅ",
      "<U+0186>", "Ɔ", "<U+0187>", "Ƈ", "<U+0188>", "ƈ", "<U+0189>", "Ɖ",
      "<U+018A>", "Ɗ", "<U+018B>", "Ƌ", "<U+018C>", "ƌ", "<U+018D>", "ƍ",
      "<U+018E>", "Ǝ", "<U+018F>", "Ə", "<U+0190>", "Ɛ", "<U+0191>", "Ƒ",
      "<U+0192>", "ƒ", "<U+0193>", "Ɠ", "<U+0194>", "Ɣ", "<U+0195>", "ƕ",
      "<U+0196>", "Ɩ", "<U+0197>", "Ɨ", "<U+0198>", "Ƙ", "<U+0199>", "ƙ",
      "<U+019A>", "ƚ", "<U+019B>", "ƛ", "<U+019C>", "Ɯ", "<U+019D>", "Ɲ",
      "<U+019E>", "ƞ", "<U+019F>", "Ɵ", "<U+01A0>", "Ơ", "<U+01A1>", "ơ",
      "<U+01A2>", "Ƣ", "<U+01A3>", "ƣ", "<U+01A4>", "Ƥ", "<U+01A5>", "ƥ",
      "<U+01A6>", "Ʀ", "<U+01A7>", "Ƨ", "<U+01A8>", "ƨ", "<U+01A9>", "Ʃ",
      "<U+01AA>", "ƪ", "<U+01AB>", "ƫ", "<U+01AC>", "Ƭ", "<U+01AD>", "ƭ",
      "<U+01AE>", "Ʈ", "<U+01AF>", "Ư", "<U+01B0>", "ư", "<U+01B1>", "Ʊ",
      "<U+01B2>", "Ʋ", "<U+01B3>", "Ƴ", "<U+01B4>", "ƴ", "<U+01B5>", "Ƶ",
      "<U+01B6>", "ƶ", "<U+01B7>", "Ʒ", "<U+01B8>", "Ƹ", "<U+01B9>", "ƹ",
      "<U+01BA>", "ƺ", "<U+01BC>", "Ƽ", "<U+01BD>", "ƽ", "<U+01BE>", "ƾ",
      "<U+01BF>", "ƿ", "<U+01C4>", "Ǆ", "<U+01C5>", "ǅ", "<U+01C6>", "ǆ",
      "<U+01C7>", "Ǉ", "<U+01C8>", "ǈ", "<U+01C9>", "ǉ", "<U+01CA>", "Ǌ",
      "<U+01CB>", "ǋ", "<U+01CC>", "ǌ", "<U+01CD>", "Ǎ", "<U+01CE>", "ǎ",
      "<U+01CF>", "Ǐ", "<U+01D0>", "ǐ", "<U+01D1>", "Ǒ", "<U+01D2>", "ǒ",
      "<U+01D3>", "Ǔ", "<U+01D4>", "ǔ", "<U+01D5>", "Ǖ", "<U+01D6>", "ǖ",
      "<U+01D7>", "Ǘ", "<U+01D8>", "ǘ", "<U+01D9>", "Ǚ", "<U+01DA>", "ǚ",
      "<U+01DB>", "Ǜ", "<U+01DC>", "ǜ", "<U+01DD>", "ǝ", "<U+01DE>", "Ǟ",
      "<U+01DF>", "ǟ", "<U+01E0>", "Ǡ", "<U+01E1>", "ǡ", "<U+01E2>", "Ǣ",
      "<U+01E3>", "ǣ", "<U+01E4>", "Ǥ", "<U+01E5>", "ǥ", "<U+01E6>", "Ǧ",
      "<U+01E7>", "ǧ", "<U+01E8>", "Ǩ", "<U+01E9>", "ǩ", "<U+01EA>", "Ǫ",
      "<U+01EB>", "ǫ", "<U+01EC>", "Ǭ", "<U+01ED>", "ǭ", "<U+01EE>", "Ǯ",
      "<U+01EF>", "ǯ", "<U+01F0>", "ǰ", "<U+01F1>", "Ǳ", "<U+01F2>", "ǲ",
      "<U+01F3>", "ǳ", "<U+01F4>", "Ǵ", "<U+01F5>", "ǵ", "<U+01F6>", "Ƕ",
      "<U+01F7>", "Ƿ", "<U+01F8>", "Ǹ", "<U+01F9>", "ǹ", "<U+01FA>", "Ǻ",
      "<U+01FB>", "ǻ", "<U+01FC>", "Ǽ", "<U+01FD>", "ǽ", "<U+01FE>", "Ǿ",
      "<U+01FF>", "ǿ", "<U+0200>", "<U+0201>", "<U+0202>", "<U+0203>",
      "<U+0204>", "<U+0205>", "<U+0206>", "<U+0207>", "<U+0208>",
      "<U+0209>", "<U+020A>", "<U+020B>", "<U+020C>", "<U+020D>",
      "<U+020E>", "<U+020F>", "<U+0210>", "<U+0211>", "<U+0212>",
      "<U+0213>", "<U+0214>", "<U+0215>", "<U+0216>", "<U+0217>",
      "<U+0218>", "<U+0219>", "<U+021A>", "<U+021B>", "<U+021C>",
      "<U+021D>", "<U+021E>", "<U+021F>", "<U+0220>", "<U+0221>",
      "<U+0222>", "<U+0223>", "<U+0224>", "<U+0225>", "<U+0226>",
      "<U+0227>", "<U+0228>", "<U+0229>", "<U+022A>", "<U+022B>",
      "<U+022C>", "<U+022D>", "<U+022E>", "<U+022F>", "<U+0230>",
      "<U+0231>", "<U+0232>", "<U+0233>", "<U+0234>", "<U+0235>",
      "<U+0236>", "<U+0237>", "<U+0238>", "<U+0239>", "<U+023A>",
      "<U+023B>", "<U+023C>", "<U+023D>", "<U+023E>", "<U+023F>",
      "<U+0240>", "<U+0241>", "<U+0242>", "<U+0243>", "<U+0244>",
      "<U+0245>", "<U+0246>", "<U+0247>", "<U+0248>", "<U+0249>",
      "<U+024A>", "<U+024B>", "<U+024C>", "<U+024D>", "<U+024E>",
      "<U+024F>", "<U+0250>", "<U+0251>", "<U+0252>", "<U+0253>",
      "<U+0254>", "<U+0255>", "<U+0256>", "<U+0257>", "<U+0258>",
      "<U+0259>", "<U+025A>", "<U+025B>", "<U+025C>", "<U+025D>",
      "<U+025E>", "<U+025F>", "<U+0260>", "<U+0261>", "<U+0262>",
      "<U+0263>", "<U+0264>", "<U+0265>", "<U+0266>", "<U+0267>",
      "<U+0268>", "<U+0269>", "<U+026A>", "<U+026B>", "<U+026C>",
      "<U+026D>", "<U+026E>", "<U+026F>", "<U+0270>", "<U+0271>",
      "<U+0272>", "<U+0273>", "<U+0274>", "<U+0275>", "<U+0276>",
      "<U+0277>", "<U+0278>", "<U+0279>", "<U+027A>", "<U+027B>",
      "<U+027C>", "<U+027D>", "<U+027E>", "<U+027F>", "<U+0280>", "ʀ",
      "<U+0281>", "ʁ", "<U+0282>", "ʂ", "<U+0283>", "ʃ", "<U+0284>", "ʄ",
      "<U+0285>", "ʅ", "<U+0286>", "ʆ", "<U+0287>", "ʇ", "<U+0288>", "ʈ",
      "<U+0289>", "ʉ", "<U+028A>", "ʊ", "<U+028B>", "ʋ", "<U+028C>", "ʌ",
      "<U+028D>", "ʍ", "<U+028E>", "ʎ", "<U+028F>", "ʏ", "<U+0290>", "ʐ",
      "<U+0291>", "ʑ", "<U+0292>", "ʒ", "<U+0293>", "ʓ", "<U+0295>", "ʕ",
      "<U+0296>", "ʖ", "<U+0297>", "ʗ", "<U+0298>", "ʘ", "<U+0299>", "ʙ",
      "<U+029A>", "ʚ", "<U+029B>", "ʛ", "<U+029C>", "ʜ", "<U+029D>", "ʝ",
      "<U+029E>", "ʞ", "<U+029F>", "ʟ", "<U+02A0>", "ʠ", "<U+02A1>", "ʡ",
      "<U+02A2>", "ʢ", "<U+02A3>", "ʣ", "<U+02A4>", "ʤ", "<U+02A5>", "ʥ",
      "<U+02A6>", "ʦ", "<U+02A7>", "ʧ", "<U+02A8>", "ʨ", "<U+02A9>", "ʩ",
      "<U+02AA>", "ʪ", "<U+02AB>", "ʫ", "<U+02AC>", "ʬ", "<U+02AD>", "ʭ",
      "<U+02AE>", "ʮ", "<U+02AF>", "ʯ", "<U+0370>", "<U+0371>", "<U+0372>",
      "<U+0373>", "<U+0376>", "<U+0377>", "<U+037B>", "<U+037C>",
      "<U+037D>", "<U+037F>", "<U+0386>", "Ά", "<U+0388>", "Έ", "<U+0389>",
      "Ή", "<U+038A>", "Ί", "<U+038C>", "Ό", "<U+038E>", "Ύ", "<U+038F>",
      "Ώ", "<U+0390>", "ΐ", "<U+0391>", "Α", "<U+0392>", "Β", "<U+0393>",
      "Γ", "<U+0394>", "Δ", "<U+0395>", "Ε", "<U+0396>", "Ζ", "<U+0397>",
      "Η", "<U+0398>", "Θ", "<U+0399>", "Ι", "<U+039A>", "Κ", "<U+039B>",
      "Λ", "<U+039C>", "Μ", "<U+039D>", "Ν", "<U+039E>", "Ξ", "<U+039F>",
      "Ο", "<U+03A0>", "Π", "<U+03A1>", "Ρ", "<U+03A3>", "Σ", "<U+03A4>",
      "Τ", "<U+03A5>", "Υ", "<U+03A6>", "Φ", "<U+03A7>", "Χ", "<U+03A8>",
      "Ψ", "<U+03A9>", "Ω", "<U+03AA>", "Ϊ", "<U+03AB>", "Ϋ", "<U+03AC>",
      "ά", "<U+03AD>", "έ", "<U+03AE>", "ή", "<U+03AF>", "ί", "<U+03B0>",
      "ΰ", "<U+03B1>", "α", "<U+03B2>", "β", "<U+03B3>", "γ", "<U+03B4>",
      "δ", "<U+03B5>", "ε", "<U+03B6>", "ζ", "<U+03B7>", "η", "<U+03B8>",
      "θ", "<U+03B9>", "ι", "<U+03BA>", "κ", "<U+03BB>", "λ", "<U+03BC>",
      "μ", "<U+03BD>", "ν", "<U+03BE>", "ξ", "<U+03BF>", "ο", "<U+03C0>",
      "π", "<U+03C1>", "ρ", "<U+03C2>", "ς", "<U+03C3>", "σ", "<U+03C4>",
      "τ", "<U+03C5>", "υ", "<U+03C6>", "φ", "<U+03C7>", "χ", "<U+03C8>",
      "ψ", "<U+03C9>", "ω", "<U+03CA>", "ϊ", "<U+03CB>", "ϋ", "<U+03CC>",
      "ό", "<U+03CD>", "ύ", "<U+03CE>", "ώ", "<U+03CF>", "Ϗ", "<U+03D0>",
      "ϐ", "<U+03D1>", "ϑ", "<U+03D2>", "ϒ", "<U+03D3>", "ϓ", "<U+03D4>",
      "ϔ", "<U+03D5>", "ϕ", "<U+03D6>", "ϖ", "<U+03D7>", "ϗ", "<U+03D8>",
      "Ϙ", "<U+03D9>", "ϙ", "<U+03DA>", "Ϛ", "<U+03DB>", "ϛ", "<U+03DC>",
      "Ϝ", "<U+03DD>", "ϝ", "<U+03DE>", "Ϟ", "<U+03DF>", "ϟ", "<U+03E0>",
      "Ϡ", "<U+03E1>", "ϡ", "<U+03E2>", "Ϣ", "<U+03E3>", "ϣ", "<U+03E4>",
      "Ϥ", "<U+03E5>", "ϥ", "<U+03E6>", "Ϧ", "<U+03E7>", "ϧ", "<U+03E8>",
      "Ϩ", "<U+03E9>", "ϩ", "<U+03EA>", "Ϫ", "<U+03EB>", "ϫ", "<U+03EC>",
      "Ϭ", "<U+03ED>", "ϭ", "<U+03EE>", "Ϯ", "<U+03EF>", "ϯ", "<U+03F0>",
      "ϰ", "<U+03F1>", "ϱ", "<U+03F2>", "ϲ", "<U+03F3>", "ϳ", "<U+03F4>",
      "ϴ", "<U+03F5>", "ϵ", "<U+03F7>", "Ϸ", "<U+03F8>", "ϸ", "<U+03F9>",
      "Ϲ", "<U+03FA>", "Ϻ", "<U+03FB>", "ϻ", "<U+03FC>", "ϼ", "<U+03FD>",
      "Ͻ", "<U+03FE>", "Ͼ", "<U+03FF>", "Ͽ", "<U+0400>", "<U+0401>",
      "<U+0402>", "<U+0403>", "<U+0404>", "<U+0405>", "<U+0406>",
      "<U+0407>", "<U+0408>", "<U+0409>", "<U+040A>", "<U+040B>",
      "<U+040C>", "<U+040D>", "<U+040E>", "<U+040F>", "<U+0410>",
      "<U+0411>", "<U+0412>", "<U+0413>", "<U+0414>", "<U+0415>",
      "<U+0416>", "<U+0417>", "<U+0418>", "<U+0419>", "<U+041A>",
      "<U+041B>", "<U+041C>", "<U+041D>", "<U+041E>", "<U+041F>",
      "<U+0420>", "<U+0421>", "<U+0422>", "<U+0423>", "<U+0424>",
      "<U+0425>", "<U+0426>", "<U+0427>", "<U+0428>", "<U+0429>",
      "<U+042A>", "<U+042B>", "<U+042C>", "<U+042D>", "<U+042E>",
      "<U+042F>", "<U+0430>", "<U+0431>", "<U+0432>", "<U+0433>",
      "<U+0434>", "<U+0435>", "<U+0436>", "<U+0437>", "<U+0438>",
      "<U+0439>", "<U+043A>", "<U+043B>", "<U+043C>", "<U+043D>",
      "<U+043E>", "<U+043F>", "<U+0440>", "<U+0441>", "<U+0442>",
      "<U+0443>", "<U+0444>", "<U+0445>", "<U+0446>", "<U+0447>",
      "<U+0448>", "<U+0449>", "<U+044A>", "<U+044B>", "<U+044C>",
      "<U+044D>", "<U+044E>", "<U+044F>", "<U+0450>", "<U+0451>",
      "<U+0452>", "<U+0453>", "<U+0454>", "<U+0455>", "<U+0456>",
      "<U+0457>", "<U+0458>", "<U+0459>", "<U+045A>", "<U+045B>",
      "<U+045C>", "<U+045D>", "<U+045E>", "<U+045F>", "<U+0460>",
      "<U+0461>", "<U+0462>", "<U+0463>", "<U+0464>", "<U+0465>",
      "<U+0466>", "<U+0467>", "<U+0468>", "<U+0469>", "<U+046A>",
      "<U+046B>", "<U+046C>", "<U+046D>", "<U+046E>", "<U+046F>",
      "<U+0470>", "<U+0471>", "<U+0472>", "<U+0473>", "<U+0474>",
      "<U+0475>", "<U+0476>", "<U+0477>", "<U+0478>", "<U+0479>",
      "<U+047A>", "<U+047B>", "<U+047C>", "<U+047D>", "<U+047E>",
      "<U+047F>", "<U+0480>", "Ҁ", "<U+0481>", "ҁ", "<U+048A>", "Ҋ",
      "<U+048B>", "ҋ", "<U+048C>", "Ҍ", "<U+048D>", "ҍ", "<U+048E>", "Ҏ",
      "<U+048F>", "ҏ", "<U+0490>", "Ґ", "<U+0491>", "ґ", "<U+0492>", "Ғ",
      "<U+0493>", "ғ", "<U+0494>", "Ҕ", "<U+0495>", "ҕ", "<U+0496>", "Җ",
      "<U+0497>", "җ", "<U+0498>", "Ҙ", "<U+0499>", "ҙ", "<U+049A>", "Қ",
      "<U+049B>", "қ", "<U+049C>", "Ҝ", "<U+049D>", "ҝ", "<U+049E>", "Ҟ",
      "<U+049F>", "ҟ", "<U+04A0>", "Ҡ", "<U+04A1>", "ҡ", "<U+04A2>", "Ң",
      "<U+04A3>", "ң", "<U+04A4>", "Ҥ", "<U+04A5>", "ҥ", "<U+04A6>", "Ҧ",
      "<U+04A7>", "ҧ", "<U+04A8>", "Ҩ", "<U+04A9>", "ҩ", "<U+04AA>", "Ҫ",
      "<U+04AB>", "ҫ", "<U+04AC>", "Ҭ", "<U+04AD>", "ҭ", "<U+04AE>", "Ү",
      "<U+04AF>", "ү", "<U+04B0>", "Ұ", "<U+04B1>", "ұ", "<U+04B2>", "Ҳ",
      "<U+04B3>", "ҳ", "<U+04B4>", "Ҵ", "<U+04B5>", "ҵ", "<U+04B6>", "Ҷ",
      "<U+04B7>", "ҷ", "<U+04B8>", "Ҹ", "<U+04B9>", "ҹ", "<U+04BA>", "Һ",
      "<U+04BB>", "һ", "<U+04BC>", "Ҽ", "<U+04BD>", "ҽ", "<U+04BE>", "Ҿ",
      "<U+04BF>", "ҿ", "<U+04C0>", "Ӏ", "<U+04C1>", "Ӂ", "<U+04C2>", "ӂ",
      "<U+04C3>", "Ӄ", "<U+04C4>", "ӄ", "<U+04C5>", "Ӆ", "<U+04C6>", "ӆ",
      "<U+04C7>", "Ӈ", "<U+04C8>", "ӈ", "<U+04C9>", "Ӊ", "<U+04CA>", "ӊ",
      "<U+04CB>", "Ӌ", "<U+04CC>", "ӌ", "<U+04CD>", "Ӎ", "<U+04CE>", "ӎ",
      "<U+04CF>", "ӏ", "<U+04D0>", "Ӑ", "<U+04D1>", "ӑ", "<U+04D2>", "Ӓ",
      "<U+04D3>", "ӓ", "<U+04D4>", "Ӕ", "<U+04D5>", "ӕ", "<U+04D6>", "Ӗ",
      "<U+04D7>", "ӗ", "<U+04D8>", "Ә", "<U+04D9>", "ә", "<U+04DA>", "Ӛ",
      "<U+04DB>", "ӛ", "<U+04DC>", "Ӝ", "<U+04DD>", "ӝ", "<U+04DE>", "Ӟ",
      "<U+04DF>", "ӟ", "<U+04E0>", "Ӡ", "<U+04E1>", "ӡ", "<U+04E2>", "Ӣ",
      "<U+04E3>", "ӣ", "<U+04E4>", "Ӥ", "<U+04E5>", "ӥ", "<U+04E6>", "Ӧ",
      "<U+04E7>", "ӧ", "<U+04E8>", "Ө", "<U+04E9>", "ө", "<U+04EA>", "Ӫ",
      "<U+04EB>", "ӫ", "<U+04EC>", "Ӭ", "<U+04ED>", "ӭ", "<U+04EE>", "Ӯ",
      "<U+04EF>", "ӯ", "<U+04F0>", "Ӱ", "<U+04F1>", "ӱ", "<U+04F2>", "Ӳ",
      "<U+04F3>", "ӳ", "<U+04F4>", "Ӵ", "<U+04F5>", "ӵ", "<U+04F6>", "Ӷ",
      "<U+04F7>", "ӷ", "<U+04F8>", "Ӹ", "<U+04F9>", "ӹ", "<U+04FA>", "Ӻ",
      "<U+04FB>", "ӻ", "<U+04FC>", "Ӽ", "<U+04FD>", "ӽ", "<U+04FE>", "Ӿ",
      "<U+04FF>", "ӿ", "<U+0500>", "<U+0501>", "<U+0502>", "<U+0503>",
      "<U+0504>", "<U+0505>", "<U+0506>", "<U+0507>", "<U+0508>",
      "<U+0509>", "<U+050A>", "<U+050B>", "<U+050C>", "<U+050D>",
      "<U+050E>", "<U+050F>", "<U+0510>", "<U+0511>", "<U+0512>",
      "<U+0513>", "<U+0514>", "<U+0515>", "<U+0516>", "<U+0517>",
      "<U+0518>", "<U+0519>", "<U+051A>", "<U+051B>", "<U+051C>",
      "<U+051D>", "<U+051E>", "<U+051F>", "<U+0520>", "<U+0521>",
      "<U+0522>", "<U+0523>", "<U+0524>", "<U+0525>", "<U+0526>",
      "<U+0527>", "<U+0528>", "<U+0529>", "<U+052A>", "<U+052B>",
      "<U+052C>", "<U+052D>", "<U+052E>", "<U+052F>", "<U+0531>",
      "<U+0532>", "<U+0533>", "<U+0534>", "<U+0535>", "<U+0536>",
      "<U+0537>", "<U+0538>", "<U+0539>", "<U+053A>", "<U+053B>",
      "<U+053C>", "<U+053D>", "<U+053E>", "<U+053F>", "<U+0540>",
      "<U+0541>", "<U+0542>", "<U+0543>", "<U+0544>", "<U+0545>",
      "<U+0546>", "<U+0547>", "<U+0548>", "<U+0549>", "<U+054A>",
      "<U+054B>", "<U+054C>", "<U+054D>", "<U+054E>", "<U+054F>",
      "<U+0550>", "<U+0551>", "<U+0552>", "<U+0553>", "<U+0554>",
      "<U+0555>", "<U+0556>", "<U+0560>", "<U+0561>", "<U+0562>",
      "<U+0563>", "<U+0564>", "<U+0565>", "<U+0566>", "<U+0567>",
      "<U+0568>", "<U+0569>", "<U+056A>", "<U+056B>", "<U+056C>",
      "<U+056D>", "<U+056E>", "<U+056F>", "<U+0570>", "<U+0571>",
      "<U+0572>", "<U+0573>", "<U+0574>", "<U+0575>", "<U+0576>",
      "<U+0577>", "<U+0578>", "<U+0579>", "<U+057A>", "<U+057B>",
      "<U+057C>", "<U+057D>", "<U+057E>", "<U+057F>", "<U+0580>", "ր",
      "<U+0581>", "ց", "<U+0582>", "ւ", "<U+0583>", "փ", "<U+0584>", "ք",
      "<U+0585>", "օ", "<U+0586>", "ֆ", "<U+0587>", "և", "<U+0588>", "ֈ",
      "<U+10A0>", "Ⴀ", "<U+10A1>", "Ⴁ", "<U+10A2>", "Ⴂ", "<U+10A3>", "Ⴃ",
      "<U+10A4>", "Ⴄ", "<U+10A5>", "Ⴅ", "<U+10A6>", "Ⴆ", "<U+10A7>", "Ⴇ",
      "<U+10A8>", "Ⴈ", "<U+10A9>", "Ⴉ", "<U+10AA>", "Ⴊ", "<U+10AB>", "Ⴋ",
      "<U+10AC>", "Ⴌ", "<U+10AD>", "Ⴍ", "<U+10AE>", "Ⴎ", "<U+10AF>", "Ⴏ",
      "<U+10B0>", "Ⴐ", "<U+10B1>", "Ⴑ", "<U+10B2>", "Ⴒ", "<U+10B3>", "Ⴓ",
      "<U+10B4>", "Ⴔ", "<U+10B5>", "Ⴕ", "<U+10B6>", "Ⴖ", "<U+10B7>", "Ⴗ",
      "<U+10B8>", "Ⴘ", "<U+10B9>", "Ⴙ", "<U+10BA>", "Ⴚ", "<U+10BB>", "Ⴛ",
      "<U+10BC>", "Ⴜ", "<U+10BD>", "Ⴝ", "<U+10BE>", "Ⴞ", "<U+10BF>", "Ⴟ",
      "<U+10C0>", "Ⴠ", "<U+10C1>", "Ⴡ", "<U+10C2>", "Ⴢ", "<U+10C3>", "Ⴣ",
      "<U+10C4>", "Ⴤ", "<U+10C5>", "Ⴥ", "<U+10C7>", "Ⴧ", "<U+10CD>", "Ⴭ",
      "<U+10D0>", "ა", "<U+10D1>", "ბ", "<U+10D2>", "გ", "<U+10D3>", "დ",
      "<U+10D4>", "ე", "<U+10D5>", "ვ", "<U+10D6>", "ზ", "<U+10D7>", "თ",
      "<U+10D8>", "ი", "<U+10D9>", "კ", "<U+10DA>", "ლ", "<U+10DB>", "მ",
      "<U+10DC>", "ნ", "<U+10DD>", "ო", "<U+10DE>", "პ", "<U+10DF>", "ჟ",
      "<U+10E0>", "რ", "<U+10E1>", "ს", "<U+10E2>", "ტ", "<U+10E3>", "უ",
      "<U+10E4>", "ფ", "<U+10E5>", "ქ", "<U+10E6>", "ღ", "<U+10E7>", "ყ",
      "<U+10E8>", "შ", "<U+10E9>", "ჩ", "<U+10EA>", "ც", "<U+10EB>", "ძ",
      "<U+10EC>", "წ", "<U+10ED>", "ჭ", "<U+10EE>", "ხ", "<U+10EF>", "ჯ",
      "<U+10F0>", "ჰ", "<U+10F1>", "ჱ", "<U+10F2>", "ჲ", "<U+10F3>", "ჳ",
      "<U+10F4>", "ჴ", "<U+10F5>", "ჵ", "<U+10F6>", "ჶ", "<U+10F7>", "ჷ",
      "<U+10F8>", "ჸ", "<U+10F9>", "ჹ", "<U+10FA>", "ჺ", "<U+10FD>", "ჽ",
      "<U+10FE>", "ჾ", "<U+10FF>", "ჿ", "<U+13A0>", "Ꭰ", "<U+13A1>", "Ꭱ",
      "<U+13A2>", "Ꭲ", "<U+13A3>", "Ꭳ", "<U+13A4>", "Ꭴ", "<U+13A5>", "Ꭵ",
      "<U+13A6>", "Ꭶ", "<U+13A7>", "Ꭷ", "<U+13A8>", "Ꭸ", "<U+13A9>", "Ꭹ",
      "<U+13AA>", "Ꭺ", "<U+13AB>", "Ꭻ", "<U+13AC>", "Ꭼ", "<U+13AD>", "Ꭽ",
      "<U+13AE>", "Ꭾ", "<U+13AF>", "Ꭿ", "<U+13B0>", "Ꮀ", "<U+13B1>", "Ꮁ",
      "<U+13B2>", "Ꮂ", "<U+13B3>", "Ꮃ", "<U+13B4>", "Ꮄ", "<U+13B5>", "Ꮅ",
      "<U+13B6>", "Ꮆ", "<U+13B7>", "Ꮇ", "<U+13B8>", "Ꮈ", "<U+13B9>", "Ꮉ",
      "<U+13BA>", "Ꮊ", "<U+13BB>", "Ꮋ", "<U+13BC>", "Ꮌ", "<U+13BD>", "Ꮍ",
      "<U+13BE>", "Ꮎ", "<U+13BF>", "Ꮏ", "<U+13C0>", "Ꮐ", "<U+13C1>", "Ꮑ",
      "<U+13C2>", "Ꮒ", "<U+13C3>", "Ꮓ", "<U+13C4>", "Ꮔ", "<U+13C5>", "Ꮕ",
      "<U+13C6>", "Ꮖ", "<U+13C7>", "Ꮗ", "<U+13C8>", "Ꮘ", "<U+13C9>", "Ꮙ",
      "<U+13CA>", "Ꮚ", "<U+13CB>", "Ꮛ", "<U+13CC>", "Ꮜ", "<U+13CD>", "Ꮝ",
      "<U+13CE>", "Ꮞ", "<U+13CF>", "Ꮟ", "<U+13D0>", "Ꮠ", "<U+13D1>", "Ꮡ",
      "<U+13D2>", "Ꮢ", "<U+13D3>", "Ꮣ", "<U+13D4>", "Ꮤ", "<U+13D5>", "Ꮥ",
      "<U+13D6>", "Ꮦ", "<U+13D7>", "Ꮧ", "<U+13D8>", "Ꮨ", "<U+13D9>", "Ꮩ",
      "<U+13DA>", "Ꮪ", "<U+13DB>", "Ꮫ", "<U+13DC>", "Ꮬ", "<U+13DD>", "Ꮭ",
      "<U+13DE>", "Ꮮ", "<U+13DF>", "Ꮯ", "<U+13E0>", "Ꮰ", "<U+13E1>", "Ꮱ",
      "<U+13E2>", "Ꮲ", "<U+13E3>", "Ꮳ", "<U+13E4>", "Ꮴ", "<U+13E5>", "Ꮵ",
      "<U+13E6>", "Ꮶ", "<U+13E7>", "Ꮷ", "<U+13E8>", "Ꮸ", "<U+13E9>", "Ꮹ",
      "<U+13EA>", "Ꮺ", "<U+13EB>", "Ꮻ", "<U+13EC>", "Ꮼ", "<U+13ED>", "Ꮽ",
      "<U+13EE>", "Ꮾ", "<U+13EF>", "Ꮿ", "<U+13F0>", "Ᏸ", "<U+13F1>", "Ᏹ",
      "<U+13F2>", "Ᏺ", "<U+13F3>", "Ᏻ", "<U+13F4>", "Ᏼ", "<U+13F5>", "Ᏽ",
      "<U+13F8>", "ᏸ", "<U+13F9>", "ᏹ", "<U+13FA>", "ᏺ", "<U+13FB>", "ᏻ",
      "<U+13FC>", "ᏼ", "<U+13FD>", "ᏽ", "<U+1C80>", "ᲀ", "<U+1C81>", "ᲁ",
      "<U+1C82>", "ᲂ", "<U+1C83>", "ᲃ", "<U+1C84>", "ᲄ", "<U+1C85>", "ᲅ",
      "<U+1C86>", "ᲆ", "<U+1C87>", "ᲇ", "<U+1C88>", "ᲈ", "<U+1C90>", "Ა",
      "<U+1C91>", "Ბ", "<U+1C92>", "Გ", "<U+1C93>", "Დ", "<U+1C94>", "Ე",
      "<U+1C95>", "Ვ", "<U+1C96>", "Ზ", "<U+1C97>", "Თ", "<U+1C98>", "Ი",
      "<U+1C99>", "Კ", "<U+1C9A>", "Ლ", "<U+1C9B>", "Მ", "<U+1C9C>", "Ნ",
      "<U+1C9D>", "Ო", "<U+1C9E>", "Პ", "<U+1C9F>", "Ჟ", "<U+1CA0>", "Რ",
      "<U+1CA1>", "Ს", "<U+1CA2>", "Ტ", "<U+1CA3>", "Უ", "<U+1CA4>", "Ფ",
      "<U+1CA5>", "Ქ", "<U+1CA6>", "Ღ", "<U+1CA7>", "Ყ", "<U+1CA8>", "Შ",
      "<U+1CA9>", "Ჩ", "<U+1CAA>", "Ც", "<U+1CAB>", "Ძ", "<U+1CAC>", "Წ",
      "<U+1CAD>", "Ჭ", "<U+1CAE>", "Ხ", "<U+1CAF>", "Ჯ", "<U+1CB0>", "Ჰ",
      "<U+1CB1>", "Ჱ", "<U+1CB2>", "Ჲ", "<U+1CB3>", "Ჳ", "<U+1CB4>", "Ჴ",
      "<U+1CB5>", "Ჵ", "<U+1CB6>", "Ჶ", "<U+1CB7>", "Ჷ", "<U+1CB8>", "Ჸ",
      "<U+1CB9>", "Ჹ", "<U+1CBA>", "Ჺ", "<U+1CBD>", "Ჽ", "<U+1CBE>", "Ჾ",
      "<U+1CBF>", "Ჿ", "<U+1D00>", "<U+1D01>", "<U+1D02>", "<U+1D03>",
      "<U+1D04>", "<U+1D05>", "<U+1D06>", "<U+1D07>", "<U+1D08>",
      "<U+1D09>", "<U+1D0A>", "<U+1D0B>", "<U+1D0C>", "<U+1D0D>",
      "<U+1D0E>", "<U+1D0F>", "<U+1D10>", "<U+1D11>", "<U+1D12>",
      "<U+1D13>", "<U+1D14>", "<U+1D15>", "<U+1D16>", "<U+1D17>",
      "<U+1D18>", "<U+1D19>", "<U+1D1A>", "<U+1D1B>", "<U+1D1C>",
      "<U+1D1D>", "<U+1D1E>", "<U+1D1F>", "<U+1D20>", "<U+1D21>",
      "<U+1D22>", "<U+1D23>", "<U+1D24>", "<U+1D25>", "<U+1D26>",
      "<U+1D27>", "<U+1D28>", "<U+1D29>", "<U+1D2A>", "<U+1D2B>",
      "<U+1D6B>", "<U+1D6C>", "<U+1D6D>", "<U+1D6E>", "<U+1D6F>",
      "<U+1D70>", "<U+1D71>", "<U+1D72>", "<U+1D73>", "<U+1D74>",
      "<U+1D75>", "<U+1D76>", "<U+1D77>", "<U+1D79>", "<U+1D7A>",
      "<U+1D7B>", "<U+1D7C>", "<U+1D7D>", "<U+1D7E>", "<U+1D7F>",
      "<U+1D80>", "ᶀ", "<U+1D81>", "ᶁ", "<U+1D82>", "ᶂ", "<U+1D83>", "ᶃ",
      "<U+1D84>", "ᶄ", "<U+1D85>", "ᶅ", "<U+1D86>", "ᶆ", "<U+1D87>", "ᶇ",
      "<U+1D88>", "ᶈ", "<U+1D89>", "ᶉ", "<U+1D8A>", "ᶊ", "<U+1D8B>", "ᶋ",
      "<U+1D8C>", "ᶌ", "<U+1D8D>", "ᶍ", "<U+1D8E>", "ᶎ", "<U+1D8F>", "ᶏ",
      "<U+1D90>", "ᶐ", "<U+1D91>", "ᶑ", "<U+1D92>", "ᶒ", "<U+1D93>", "ᶓ",
      "<U+1D94>", "ᶔ", "<U+1D95>", "ᶕ", "<U+1D96>", "ᶖ", "<U+1D97>", "ᶗ",
      "<U+1D98>", "ᶘ", "<U+1D99>", "ᶙ", "<U+1D9A>", "ᶚ", "<U+1E00>",
      "<U+1E01>", "<U+1E02>", "<U+1E03>", "<U+1E04>", "<U+1E05>",
      "<U+1E06>", "<U+1E07>", "<U+1E08>", "<U+1E09>", "<U+1E0A>",
      "<U+1E0B>", "<U+1E0C>", "<U+1E0D>", "<U+1E0E>", "<U+1E0F>",
      "<U+1E10>", "<U+1E11>", "<U+1E12>", "<U+1E13>", "<U+1E14>",
      "<U+1E15>", "<U+1E16>", "<U+1E17>", "<U+1E18>", "<U+1E19>",
      "<U+1E1A>", "<U+1E1B>", "<U+1E1C>", "<U+1E1D>", "<U+1E1E>",
      "<U+1E1F>", "<U+1E20>", "<U+1E21>", "<U+1E22>", "<U+1E23>",
      "<U+1E24>", "<U+1E25>", "<U+1E26>", "<U+1E27>", "<U+1E28>",
      "<U+1E29>", "<U+1E2A>", "<U+1E2B>", "<U+1E2C>", "<U+1E2D>",
      "<U+1E2E>", "<U+1E2F>", "<U+1E30>", "<U+1E31>", "<U+1E32>",
      "<U+1E33>", "<U+1E34>", "<U+1E35>", "<U+1E36>", "<U+1E37>",
      "<U+1E38>", "<U+1E39>", "<U+1E3A>", "<U+1E3B>", "<U+1E3C>",
      "<U+1E3D>", "<U+1E3E>", "<U+1E3F>", "<U+1E40>", "<U+1E41>",
      "<U+1E42>", "<U+1E43>", "<U+1E44>", "<U+1E45>", "<U+1E46>",
      "<U+1E47>", "<U+1E48>", "<U+1E49>", "<U+1E4A>", "<U+1E4B>",
      "<U+1E4C>", "<U+1E4D>", "<U+1E4E>", "<U+1E4F>", "<U+1E50>",
      "<U+1E51>", "<U+1E52>", "<U+1E53>", "<U+1E54>", "<U+1E55>",
      "<U+1E56>", "<U+1E57>", "<U+1E58>", "<U+1E59>", "<U+1E5A>",
      "<U+1E5B>", "<U+1E5C>", "<U+1E5D>", "<U+1E5E>", "<U+1E5F>",
      "<U+1E60>", "<U+1E61>", "<U+1E62>", "<U+1E63>", "<U+1E64>",
      "<U+1E65>", "<U+1E66>", "<U+1E67>", "<U+1E68>", "<U+1E69>",
      "<U+1E6A>", "<U+1E6B>", "<U+1E6C>", "<U+1E6D>", "<U+1E6E>",
      "<U+1E6F>", "<U+1E70>", "<U+1E71>", "<U+1E72>", "<U+1E73>",
      "<U+1E74>", "<U+1E75>", "<U+1E76>", "<U+1E77>", "<U+1E78>",
      "<U+1E79>", "<U+1E7A>", "<U+1E7B>", "<U+1E7C>", "<U+1E7D>",
      "<U+1E7E>", "<U+1E7F>", "<U+1E80>", "Ẁ", "<U+1E81>", "ẁ", "<U+1E82>",
      "Ẃ", "<U+1E83>", "ẃ", "<U+1E84>", "Ẅ", "<U+1E85>", "ẅ", "<U+1E86>",
      "Ẇ", "<U+1E87>", "ẇ", "<U+1E88>", "Ẉ", "<U+1E89>", "ẉ", "<U+1E8A>",
      "Ẋ", "<U+1E8B>", "ẋ", "<U+1E8C>", "Ẍ", "<U+1E8D>", "ẍ", "<U+1E8E>",
      "Ẏ", "<U+1E8F>", "ẏ", "<U+1E90>", "Ẑ", "<U+1E91>", "ẑ", "<U+1E92>",
      "Ẓ", "<U+1E93>", "ẓ", "<U+1E94>", "Ẕ", "<U+1E95>", "ẕ", "<U+1E96>",
      "ẖ", "<U+1E97>", "ẗ", "<U+1E98>", "ẘ", "<U+1E99>", "ẙ", "<U+1E9A>",
      "ẚ", "<U+1E9B>", "ẛ", "<U+1E9C>", "ẜ", "<U+1E9D>", "ẝ", "<U+1E9E>",
      "ẞ", "<U+1E9F>", "ẟ", "<U+1EA0>", "Ạ", "<U+1EA1>", "ạ", "<U+1EA2>",
      "Ả", "<U+1EA3>", "ả", "<U+1EA4>", "Ấ", "<U+1EA5>", "ấ", "<U+1EA6>",
      "Ầ", "<U+1EA7>", "ầ", "<U+1EA8>", "Ẩ", "<U+1EA9>", "ẩ", "<U+1EAA>",
      "Ẫ", "<U+1EAB>", "ẫ", "<U+1EAC>", "Ậ", "<U+1EAD>", "ậ", "<U+1EAE>",
      "Ắ", "<U+1EAF>", "ắ", "<U+1EB0>", "Ằ", "<U+1EB1>", "ằ", "<U+1EB2>",
      "Ẳ", "<U+1EB3>", "ẳ", "<U+1EB4>", "Ẵ", "<U+1EB5>", "ẵ", "<U+1EB6>",
      "Ặ", "<U+1EB7>", "ặ", "<U+1EB8>", "Ẹ", "<U+1EB9>", "ẹ", "<U+1EBA>",
      "Ẻ", "<U+1EBB>", "ẻ", "<U+1EBC>", "Ẽ", "<U+1EBD>", "ẽ", "<U+1EBE>",
      "Ế", "<U+1EBF>", "ế", "<U+1EC0>", "Ề", "<U+1EC1>", "ề", "<U+1EC2>",
      "Ể", "<U+1EC3>", "ể", "<U+1EC4>", "Ễ", "<U+1EC5>", "ễ", "<U+1EC6>",
      "Ệ", "<U+1EC7>", "ệ", "<U+1EC8>", "Ỉ", "<U+1EC9>", "ỉ", "<U+1ECA>",
      "Ị", "<U+1ECB>", "ị", "<U+1ECC>", "Ọ", "<U+1ECD>", "ọ", "<U+1ECE>",
      "Ỏ", "<U+1ECF>", "ỏ", "<U+1ED0>", "Ố", "<U+1ED1>", "ố", "<U+1ED2>",
      "Ồ", "<U+1ED3>", "ồ", "<U+1ED4>", "Ổ", "<U+1ED5>", "ổ", "<U+1ED6>",
      "Ỗ", "<U+1ED7>", "ỗ", "<U+1ED8>", "Ộ", "<U+1ED9>", "ộ", "<U+1EDA>",
      "Ớ", "<U+1EDB>", "ớ", "<U+1EDC>", "Ờ", "<U+1EDD>", "ờ", "<U+1EDE>",
      "Ở", "<U+1EDF>", "ở", "<U+1EE0>", "Ỡ", "<U+1EE1>", "ỡ", "<U+1EE2>",
      "Ợ", "<U+1EE3>", "ợ", "<U+1EE4>", "Ụ", "<U+1EE5>", "ụ", "<U+1EE6>",
      "Ủ", "<U+1EE7>", "ủ", "<U+1EE8>", "Ứ", "<U+1EE9>", "ứ", "<U+1EEA>",
      "Ừ", "<U+1EEB>", "ừ", "<U+1EEC>", "Ử", "<U+1EED>", "ử", "<U+1EEE>",
      "Ữ", "<U+1EEF>", "ữ", "<U+1EF0>", "Ự", "<U+1EF1>", "ự", "<U+1EF2>",
      "Ỳ", "<U+1EF3>", "ỳ", "<U+1EF4>", "Ỵ", "<U+1EF5>", "ỵ", "<U+1EF6>",
      "Ỷ", "<U+1EF7>", "ỷ", "<U+1EF8>", "Ỹ", "<U+1EF9>", "ỹ", "<U+1EFA>",
      "Ỻ", "<U+1EFB>", "ỻ", "<U+1EFC>", "Ỽ", "<U+1EFD>", "ỽ", "<U+1EFE>",
      "Ỿ", "<U+1EFF>", "ỿ", "<U+1F00>", "<U+1F01>", "<U+1F02>", "<U+1F03>",
      "<U+1F04>", "<U+1F05>", "<U+1F06>", "<U+1F07>", "<U+1F08>",
      "<U+1F09>", "<U+1F0A>", "<U+1F0B>", "<U+1F0C>", "<U+1F0D>",
      "<U+1F0E>", "<U+1F0F>", "<U+1F10>", "<U+1F11>", "<U+1F12>",
      "<U+1F13>", "<U+1F14>", "<U+1F15>", "<U+1F18>", "<U+1F19>",
      "<U+1F1A>", "<U+1F1B>", "<U+1F1C>", "<U+1F1D>", "<U+1F20>",
      "<U+1F21>", "<U+1F22>", "<U+1F23>", "<U+1F24>", "<U+1F25>",
      "<U+1F26>", "<U+1F27>", "<U+1F28>", "<U+1F29>", "<U+1F2A>",
      "<U+1F2B>", "<U+1F2C>", "<U+1F2D>", "<U+1F2E>", "<U+1F2F>",
      "<U+1F30>", "<U+1F31>", "<U+1F32>", "<U+1F33>", "<U+1F34>",
      "<U+1F35>", "<U+1F36>", "<U+1F37>", "<U+1F38>", "<U+1F39>",
      "<U+1F3A>", "<U+1F3B>", "<U+1F3C>", "<U+1F3D>", "<U+1F3E>",
      "<U+1F3F>", "<U+1F40>", "<U+1F41>", "<U+1F42>", "<U+1F43>",
      "<U+1F44>", "<U+1F45>", "<U+1F48>", "<U+1F49>", "<U+1F4A>",
      "<U+1F4B>", "<U+1F4C>", "<U+1F4D>", "<U+1F50>", "<U+1F51>",
      "<U+1F52>", "<U+1F53>", "<U+1F54>", "<U+1F55>", "<U+1F56>",
      "<U+1F57>", "<U+1F59>", "<U+1F5B>", "<U+1F5D>", "<U+1F5F>",
      "<U+1F60>", "<U+1F61>", "<U+1F62>", "<U+1F63>", "<U+1F64>",
      "<U+1F65>", "<U+1F66>", "<U+1F67>", "<U+1F68>", "<U+1F69>",
      "<U+1F6A>", "<U+1F6B>", "<U+1F6C>", "<U+1F6D>", "<U+1F6E>",
      "<U+1F6F>", "<U+1F70>", "<U+1F71>", "<U+1F72>", "<U+1F73>",
      "<U+1F74>", "<U+1F75>", "<U+1F76>", "<U+1F77>", "<U+1F78>",
      "<U+1F79>", "<U+1F7A>", "<U+1F7B>", "<U+1F7C>", "<U+1F7D>",
      "<U+1F80>", "ᾀ", "<U+1F81>", "ᾁ", "<U+1F82>", "ᾂ", "<U+1F83>", "ᾃ",
      "<U+1F84>", "ᾄ", "<U+1F85>", "ᾅ", "<U+1F86>", "ᾆ", "<U+1F87>", "ᾇ",
      "<U+1F88>", "ᾈ", "<U+1F89>", "ᾉ", "<U+1F8A>", "ᾊ", "<U+1F8B>", "ᾋ",
      "<U+1F8C>", "ᾌ", "<U+1F8D>", "ᾍ", "<U+1F8E>", "ᾎ", "<U+1F8F>", "ᾏ",
      "<U+1F90>", "ᾐ", "<U+1F91>", "ᾑ", "<U+1F92>", "ᾒ", "<U+1F93>", "ᾓ",
      "<U+1F94>", "ᾔ", "<U+1F95>", "ᾕ", "<U+1F96>", "ᾖ", "<U+1F97>", "ᾗ",
      "<U+1F98>", "ᾘ", "<U+1F99>", "ᾙ", "<U+1F9A>", "ᾚ", "<U+1F9B>", "ᾛ",
      "<U+1F9C>", "ᾜ", "<U+1F9D>", "ᾝ", "<U+1F9E>", "ᾞ", "<U+1F9F>", "ᾟ",
      "<U+1FA0>", "ᾠ", "<U+1FA1>", "ᾡ", "<U+1FA2>", "ᾢ", "<U+1FA3>", "ᾣ",
      "<U+1FA4>", "ᾤ", "<U+1FA5>", "ᾥ", "<U+1FA6>", "ᾦ", "<U+1FA7>", "ᾧ",
      "<U+1FA8>", "ᾨ", "<U+1FA9>", "ᾩ", "<U+1FAA>", "ᾪ", "<U+1FAB>", "ᾫ",
      "<U+1FAC>", "ᾬ", "<U+1FAD>", "ᾭ", "<U+1FAE>", "ᾮ", "<U+1FAF>", "ᾯ",
      "<U+1FB0>", "ᾰ", "<U+1FB1>", "ᾱ", "<U+1FB2>", "ᾲ", "<U+1FB3>", "ᾳ",
      "<U+1FB4>", "ᾴ", "<U+1FB6>", "ᾶ", "<U+1FB7>", "ᾷ", "<U+1FB8>", "Ᾰ",
      "<U+1FB9>", "Ᾱ", "<U+1FBA>", "Ὰ", "<U+1FBB>", "Ά", "<U+1FBC>", "ᾼ",
      "<U+1FBE>", "ι", "<U+1FC2>", "ῂ", "<U+1FC3>", "ῃ", "<U+1FC4>", "ῄ",
      "<U+1FC6>", "ῆ", "<U+1FC7>", "ῇ", "<U+1FC8>", "Ὲ", "<U+1FC9>", "Έ",
      "<U+1FCA>", "Ὴ", "<U+1FCB>", "Ή", "<U+1FCC>", "ῌ", "<U+1FD0>", "ῐ",
      "<U+1FD1>", "ῑ", "<U+1FD2>", "ῒ", "<U+1FD3>", "ΐ", "<U+1FD6>", "ῖ",
      "<U+1FD7>", "ῗ", "<U+1FD8>", "Ῐ", "<U+1FD9>", "Ῑ", "<U+1FDA>", "Ὶ",
      "<U+1FDB>", "Ί", "<U+1FE0>", "ῠ", "<U+1FE1>", "ῡ", "<U+1FE2>", "ῢ",
      "<U+1FE3>", "ΰ", "<U+1FE4>", "ῤ", "<U+1FE5>", "ῥ", "<U+1FE6>", "ῦ",
      "<U+1FE7>", "ῧ", "<U+1FE8>", "Ῠ", "<U+1FE9>", "Ῡ", "<U+1FEA>", "Ὺ",
      "<U+1FEB>", "Ύ", "<U+1FEC>", "Ῥ", "<U+1FF2>", "ῲ", "<U+1FF3>", "ῳ",
      "<U+1FF4>", "ῴ", "<U+1FF6>", "ῶ", "<U+1FF7>", "ῷ", "<U+1FF8>", "Ὸ",
      "<U+1FF9>", "Ό", "<U+1FFA>", "Ὼ", "<U+1FFB>", "Ώ", "<U+1FFC>", "ῼ",
      "<U+2102>", "<U+2107>", "<U+210A>", "<U+210B>", "<U+210C>",
      "<U+210D>", "<U+210E>", "<U+210F>", "<U+2110>", "<U+2111>",
      "<U+2112>", "<U+2113>", "<U+2115>", "<U+2119>", "<U+211A>",
      "<U+211B>", "<U+211C>", "<U+211D>", "<U+2124>", "<U+2126>",
      "<U+2128>", "<U+212A>", "<U+212B>", "<U+212C>", "<U+212D>",
      "<U+212F>", "<U+2130>", "<U+2131>", "<U+2132>", "<U+2133>",
      "<U+2134>", "<U+2139>", "<U+213C>", "<U+213D>", "<U+213E>",
      "<U+213F>", "<U+2145>", "<U+2146>", "<U+2147>", "<U+2148>",
      "<U+2149>", "<U+214E>", "<U+2160>", "<U+2161>", "<U+2162>",
      "<U+2163>", "<U+2164>", "<U+2165>", "<U+2166>", "<U+2167>",
      "<U+2168>", "<U+2169>", "<U+216A>", "<U+216B>", "<U+216C>",
      "<U+216D>", "<U+216E>", "<U+216F>", "<U+2170>", "<U+2171>",
      "<U+2172>", "<U+2173>", "<U+2174>", "<U+2175>", "<U+2176>",
      "<U+2177>", "<U+2178>", "<U+2179>", "<U+217A>", "<U+217B>",
      "<U+217C>", "<U+217D>", "<U+217E>", "<U+217F>", "<U+2183>", "Ↄ",
      "<U+2184>", "ↄ", "<U+24B6>", "Ⓐ", "<U+24B7>", "Ⓑ", "<U+24B8>", "Ⓒ",
      "<U+24B9>", "Ⓓ", "<U+24BA>", "Ⓔ", "<U+24BB>", "Ⓕ", "<U+24BC>", "Ⓖ",
      "<U+24BD>", "Ⓗ", "<U+24BE>", "Ⓘ", "<U+24BF>", "Ⓙ", "<U+24C0>", "Ⓚ",
      "<U+24C1>", "Ⓛ", "<U+24C2>", "Ⓜ", "<U+24C3>", "Ⓝ", "<U+24C4>", "Ⓞ",
      "<U+24C5>", "Ⓟ", "<U+24C6>", "Ⓠ", "<U+24C7>", "Ⓡ", "<U+24C8>", "Ⓢ",
      "<U+24C9>", "Ⓣ", "<U+24CA>", "Ⓤ", "<U+24CB>", "Ⓥ", "<U+24CC>", "Ⓦ",
      "<U+24CD>", "Ⓧ", "<U+24CE>", "Ⓨ", "<U+24CF>", "Ⓩ", "<U+24D0>", "ⓐ",
      "<U+24D1>", "ⓑ", "<U+24D2>", "ⓒ", "<U+24D3>", "ⓓ", "<U+24D4>", "ⓔ",
      "<U+24D5>", "ⓕ", "<U+24D6>", "ⓖ", "<U+24D7>", "ⓗ", "<U+24D8>", "ⓘ",
      "<U+24D9>", "ⓙ", "<U+24DA>", "ⓚ", "<U+24DB>", "ⓛ", "<U+24DC>", "ⓜ",
      "<U+24DD>", "ⓝ", "<U+24DE>", "ⓞ", "<U+24DF>", "ⓟ", "<U+24E0>", "ⓠ",
      "<U+24E1>", "ⓡ", "<U+24E2>", "ⓢ", "<U+24E3>", "ⓣ", "<U+24E4>", "ⓤ",
      "<U+24E5>", "ⓥ", "<U+24E6>", "ⓦ", "<U+24E7>", "ⓧ", "<U+24E8>", "ⓨ",
      "<U+24E9>", "ⓩ", "<U+2C00>", "<U+2C01>", "<U+2C02>", "<U+2C03>",
      "<U+2C04>", "<U+2C05>", "<U+2C06>", "<U+2C07>", "<U+2C08>",
      "<U+2C09>", "<U+2C0A>", "<U+2C0B>", "<U+2C0C>", "<U+2C0D>",
      "<U+2C0E>", "<U+2C0F>", "<U+2C10>", "<U+2C11>", "<U+2C12>",
      "<U+2C13>", "<U+2C14>", "<U+2C15>", "<U+2C16>", "<U+2C17>",
      "<U+2C18>", "<U+2C19>", "<U+2C1A>", "<U+2C1B>", "<U+2C1C>",
      "<U+2C1D>", "<U+2C1E>", "<U+2C1F>", "<U+2C20>", "<U+2C21>",
      "<U+2C22>", "<U+2C23>", "<U+2C24>", "<U+2C25>", "<U+2C26>",
      "<U+2C27>", "<U+2C28>", "<U+2C29>", "<U+2C2A>", "<U+2C2B>",
      "<U+2C2C>", "<U+2C2D>", "<U+2C2E>", "<U+2C2F>", "<U+2C30>",
      "<U+2C31>", "<U+2C32>", "<U+2C33>", "<U+2C34>", "<U+2C35>",
      "<U+2C36>", "<U+2C37>", "<U+2C38>", "<U+2C39>", "<U+2C3A>",
      "<U+2C3B>", "<U+2C3C>", "<U+2C3D>", "<U+2C3E>", "<U+2C3F>",
      "<U+2C40>", "<U+2C41>", "<U+2C42>", "<U+2C43>", "<U+2C44>",
      "<U+2C45>", "<U+2C46>", "<U+2C47>", "<U+2C48>", "<U+2C49>",
      "<U+2C4A>", "<U+2C4B>", "<U+2C4C>", "<U+2C4D>", "<U+2C4E>",
      "<U+2C4F>", "<U+2C50>", "<U+2C51>", "<U+2C52>", "<U+2C53>",
      "<U+2C54>", "<U+2C55>", "<U+2C56>", "<U+2C57>", "<U+2C58>",
      "<U+2C59>", "<U+2C5A>", "<U+2C5B>", "<U+2C5C>", "<U+2C5D>",
      "<U+2C5E>", "<U+2C5F>", "<U+2C60>", "<U+2C61>", "<U+2C62>",
      "<U+2C63>", "<U+2C64>", "<U+2C65>", "<U+2C66>", "<U+2C67>",
      "<U+2C68>", "<U+2C69>", "<U+2C6A>", "<U+2C6B>", "<U+2C6C>",
      "<U+2C6D>", "<U+2C6E>", "<U+2C6F>", "<U+2C70>", "<U+2C71>",
      "<U+2C72>", "<U+2C73>", "<U+2C74>", "<U+2C75>", "<U+2C76>",
      "<U+2C77>", "<U+2C78>", "<U+2C79>", "<U+2C7A>", "<U+2C7B>",
      "<U+2C7E>", "<U+2C7F>", "<U+2C80>", "Ⲁ", "<U+2C81>", "ⲁ", "<U+2C82>",
      "Ⲃ", "<U+2C83>", "ⲃ", "<U+2C84>", "Ⲅ", "<U+2C85>", "ⲅ", "<U+2C86>",
      "Ⲇ", "<U+2C87>", "ⲇ", "<U+2C88>", "Ⲉ", "<U+2C89>", "ⲉ", "<U+2C8A>",
      "Ⲋ", "<U+2C8B>", "ⲋ", "<U+2C8C>", "Ⲍ", "<U+2C8D>", "ⲍ", "<U+2C8E>",
      "Ⲏ", "<U+2C8F>", "ⲏ", "<U+2C90>", "Ⲑ", "<U+2C91>", "ⲑ", "<U+2C92>",
      "Ⲓ", "<U+2C93>", "ⲓ", "<U+2C94>", "Ⲕ", "<U+2C95>", "ⲕ", "<U+2C96>",
      "Ⲗ", "<U+2C97>", "ⲗ", "<U+2C98>", "Ⲙ", "<U+2C99>", "ⲙ", "<U+2C9A>",
      "Ⲛ", "<U+2C9B>", "ⲛ", "<U+2C9C>", "Ⲝ", "<U+2C9D>", "ⲝ", "<U+2C9E>",
      "Ⲟ", "<U+2C9F>", "ⲟ", "<U+2CA0>", "Ⲡ", "<U+2CA1>", "ⲡ", "<U+2CA2>",
      "Ⲣ", "<U+2CA3>", "ⲣ", "<U+2CA4>", "Ⲥ", "<U+2CA5>", "ⲥ", "<U+2CA6>",
      "Ⲧ", "<U+2CA7>", "ⲧ", "<U+2CA8>", "Ⲩ", "<U+2CA9>", "ⲩ", "<U+2CAA>",
      "Ⲫ", "<U+2CAB>", "ⲫ", "<U+2CAC>", "Ⲭ", "<U+2CAD>", "ⲭ", "<U+2CAE>",
      "Ⲯ", "<U+2CAF>", "ⲯ", "<U+2CB0>", "Ⲱ", "<U+2CB1>", "ⲱ", "<U+2CB2>",
      "Ⲳ", "<U+2CB3>", "ⲳ", "<U+2CB4>", "Ⲵ", "<U+2CB5>", "ⲵ", "<U+2CB6>",
      "Ⲷ", "<U+2CB7>", "ⲷ", "<U+2CB8>", "Ⲹ", "<U+2CB9>", "ⲹ", "<U+2CBA>",
      "Ⲻ", "<U+2CBB>", "ⲻ", "<U+2CBC>", "Ⲽ", "<U+2CBD>", "ⲽ", "<U+2CBE>",
      "Ⲿ", "<U+2CBF>", "ⲿ", "<U+2CC0>", "Ⳁ", "<U+2CC1>", "ⳁ", "<U+2CC2>",
      "Ⳃ", "<U+2CC3>", "ⳃ", "<U+2CC4>", "Ⳅ", "<U+2CC5>", "ⳅ", "<U+2CC6>",
      "Ⳇ", "<U+2CC7>", "ⳇ", "<U+2CC8>", "Ⳉ", "<U+2CC9>", "ⳉ", "<U+2CCA>",
      "Ⳋ", "<U+2CCB>", "ⳋ", "<U+2CCC>", "Ⳍ", "<U+2CCD>", "ⳍ", "<U+2CCE>",
      "Ⳏ", "<U+2CCF>", "ⳏ", "<U+2CD0>", "Ⳑ", "<U+2CD1>", "ⳑ", "<U+2CD2>",
      "Ⳓ", "<U+2CD3>", "ⳓ", "<U+2CD4>", "Ⳕ", "<U+2CD5>", "ⳕ", "<U+2CD6>",
      "Ⳗ", "<U+2CD7>", "ⳗ", "<U+2CD8>", "Ⳙ", "<U+2CD9>", "ⳙ", "<U+2CDA>",
      "Ⳛ", "<U+2CDB>", "ⳛ", "<U+2CDC>", "Ⳝ", "<U+2CDD>", "ⳝ", "<U+2CDE>",
      "Ⳟ", "<U+2CDF>", "ⳟ", "<U+2CE0>", "Ⳡ", "<U+2CE1>", "ⳡ", "<U+2CE2>",
      "Ⳣ", "<U+2CE3>", "ⳣ", "<U+2CE4>", "ⳤ", "<U+2CEB>", "Ⳬ", "<U+2CEC>",
      "ⳬ", "<U+2CED>", "Ⳮ", "<U+2CEE>", "ⳮ", "<U+2CF2>", "Ⳳ", "<U+2CF3>",
      "ⳳ", "<U+2D00>", "<U+2D01>", "<U+2D02>", "<U+2D03>", "<U+2D04>",
      "<U+2D05>", "<U+2D06>", "<U+2D07>", "<U+2D08>", "<U+2D09>",
      "<U+2D0A>", "<U+2D0B>", "<U+2D0C>", "<U+2D0D>", "<U+2D0E>",
      "<U+2D0F>", "<U+2D10>", "<U+2D11>", "<U+2D12>", "<U+2D13>",
      "<U+2D14>", "<U+2D15>", "<U+2D16>", "<U+2D17>", "<U+2D18>",
      "<U+2D19>", "<U+2D1A>", "<U+2D1B>", "<U+2D1C>", "<U+2D1D>",
      "<U+2D1E>", "<U+2D1F>", "<U+2D20>", "<U+2D21>", "<U+2D22>",
      "<U+2D23>", "<U+2D24>", "<U+2D25>", "<U+2D27>", "<U+2D2D>",
      "<U+A640>", "<U+A641>", "<U+A642>", "<U+A643>", "<U+A644>",
      "<U+A645>", "<U+A646>", "<U+A647>", "<U+A648>", "<U+A649>",
      "<U+A64A>", "<U+A64B>", "<U+A64C>", "<U+A64D>", "<U+A64E>",
      "<U+A64F>", "<U+A650>", "<U+A651>", "<U+A652>", "<U+A653>",
      "<U+A654>", "<U+A655>", "<U+A656>", "<U+A657>", "<U+A658>",
      "<U+A659>", "<U+A65A>", "<U+A65B>", "<U+A65C>", "<U+A65D>",
      "<U+A65E>", "<U+A65F>", "<U+A660>", "<U+A661>", "<U+A662>",
      "<U+A663>", "<U+A664>", "<U+A665>", "<U+A666>", "<U+A667>",
      "<U+A668>", "<U+A669>", "<U+A66A>", "<U+A66B>", "<U+A66C>",
      "<U+A66D>", "<U+A680>", "Ꚁ", "<U+A681>", "ꚁ", "<U+A682>", "Ꚃ",
      "<U+A683>", "ꚃ", "<U+A684>", "Ꚅ", "<U+A685>", "ꚅ", "<U+A686>", "Ꚇ",
      "<U+A687>", "ꚇ", "<U+A688>", "Ꚉ", "<U+A689>", "ꚉ", "<U+A68A>", "Ꚋ",
      "<U+A68B>", "ꚋ", "<U+A68C>", "Ꚍ", "<U+A68D>", "ꚍ", "<U+A68E>", "Ꚏ",
      "<U+A68F>", "ꚏ", "<U+A690>", "Ꚑ", "<U+A691>", "ꚑ", "<U+A692>", "Ꚓ",
      "<U+A693>", "ꚓ", "<U+A694>", "Ꚕ", "<U+A695>", "ꚕ", "<U+A696>", "Ꚗ",
      "<U+A697>", "ꚗ", "<U+A698>", "Ꚙ", "<U+A699>", "ꚙ", "<U+A69A>", "Ꚛ",
      "<U+A69B>", "ꚛ", "<U+A722>", "<U+A723>", "<U+A724>", "<U+A725>",
      "<U+A726>", "<U+A727>", "<U+A728>", "<U+A729>", "<U+A72A>",
      "<U+A72B>", "<U+A72C>", "<U+A72D>", "<U+A72E>", "<U+A72F>",
      "<U+A730>", "<U+A731>", "<U+A732>", "<U+A733>", "<U+A734>",
      "<U+A735>", "<U+A736>", "<U+A737>", "<U+A738>", "<U+A739>",
      "<U+A73A>", "<U+A73B>", "<U+A73C>", "<U+A73D>", "<U+A73E>",
      "<U+A73F>", "<U+A740>", "<U+A741>", "<U+A742>", "<U+A743>",
      "<U+A744>", "<U+A745>", "<U+A746>", "<U+A747>", "<U+A748>",
      "<U+A749>", "<U+A74A>", "<U+A74B>", "<U+A74C>", "<U+A74D>",
      "<U+A74E>", "<U+A74F>", "<U+A750>", "<U+A751>", "<U+A752>",
      "<U+A753>", "<U+A754>", "<U+A755>", "<U+A756>", "<U+A757>",
      "<U+A758>", "<U+A759>", "<U+A75A>", "<U+A75B>", "<U+A75C>",
      "<U+A75D>", "<U+A75E>", "<U+A75F>", "<U+A760>", "<U+A761>",
      "<U+A762>", "<U+A763>", "<U+A764>", "<U+A765>", "<U+A766>",
      "<U+A767>", "<U+A768>", "<U+A769>", "<U+A76A>", "<U+A76B>",
      "<U+A76C>", "<U+A76D>", "<U+A76E>", "<U+A76F>", "<U+A771>",
      "<U+A772>", "<U+A773>", "<U+A774>", "<U+A775>", "<U+A776>",
      "<U+A777>", "<U+A778>", "<U+A779>", "<U+A77A>", "<U+A77B>",
      "<U+A77C>", "<U+A77D>", "<U+A77E>", "<U+A77F>", "<U+A780>", "Ꞁ",
      "<U+A781>", "ꞁ", "<U+A782>", "Ꞃ", "<U+A783>", "ꞃ", "<U+A784>", "Ꞅ",
      "<U+A785>", "ꞅ", "<U+A786>", "Ꞇ", "<U+A787>", "ꞇ", "<U+A78B>", "Ꞌ",
      "<U+A78C>", "ꞌ", "<U+A78D>", "Ɥ", "<U+A78E>", "ꞎ", "<U+A790>", "Ꞑ",
      "<U+A791>", "ꞑ", "<U+A792>", "Ꞓ", "<U+A793>", "ꞓ", "<U+A794>", "ꞔ",
      "<U+A795>", "ꞕ", "<U+A796>", "Ꞗ", "<U+A797>", "ꞗ", "<U+A798>", "Ꞙ",
      "<U+A799>", "ꞙ", "<U+A79A>", "Ꞛ", "<U+A79B>", "ꞛ", "<U+A79C>", "Ꞝ",
      "<U+A79D>", "ꞝ", "<U+A79E>", "Ꞟ", "<U+A79F>", "ꞟ", "<U+A7A0>", "Ꞡ",
      "<U+A7A1>", "ꞡ", "<U+A7A2>", "Ꞣ", "<U+A7A3>", "ꞣ", "<U+A7A4>", "Ꞥ",
      "<U+A7A5>", "ꞥ", "<U+A7A6>", "Ꞧ", "<U+A7A7>", "ꞧ", "<U+A7A8>", "Ꞩ",
      "<U+A7A9>", "ꞩ", "<U+A7AA>", "Ɦ", "<U+A7AB>", "Ɜ", "<U+A7AC>", "Ɡ",
      "<U+A7AD>", "Ɬ", "<U+A7AE>", "Ɪ", "<U+A7AF>", "ꞯ", "<U+A7B0>", "Ʞ",
      "<U+A7B1>", "Ʇ", "<U+A7B2>", "Ʝ", "<U+A7B3>", "Ꭓ", "<U+A7B4>", "Ꞵ",
      "<U+A7B5>", "ꞵ", "<U+A7B6>", "Ꞷ", "<U+A7B7>", "ꞷ", "<U+A7B8>", "Ꞹ",
      "<U+A7B9>", "ꞹ", "<U+A7BA>", "Ꞻ", "<U+A7BB>", "ꞻ", "<U+A7BC>", "Ꞽ",
      "<U+A7BD>", "ꞽ", "<U+A7BE>", "Ꞿ", "<U+A7BF>", "ꞿ", "<U+A7C0>", "Ꟁ",
      "<U+A7C1>", "ꟁ", "<U+A7C2>", "Ꟃ", "<U+A7C3>", "ꟃ", "<U+A7C4>", "Ꞔ",
      "<U+A7C5>", "Ʂ", "<U+A7C6>", "Ᶎ", "<U+A7C7>", "Ꟈ", "<U+A7C8>", "ꟈ",
      "<U+A7C9>", "Ꟊ", "<U+A7CA>", "ꟊ", "<U+A7D0>", "Ꟑ", "<U+A7D1>", "ꟑ",
      "<U+A7D3>", "ꟓ", "<U+A7D5>", "ꟕ", "<U+A7D6>", "Ꟗ", "<U+A7D7>", "ꟗ",
      "<U+A7D8>", "Ꟙ", "<U+A7D9>", "ꟙ", "<U+A7F5>", "Ꟶ", "<U+A7F6>", "ꟶ",
      "<U+A7FA>", "ꟺ", "<U+AB30>", "<U+AB31>", "<U+AB32>", "<U+AB33>",
      "<U+AB34>", "<U+AB35>", "<U+AB36>", "<U+AB37>", "<U+AB38>",
      "<U+AB39>", "<U+AB3A>", "<U+AB3B>", "<U+AB3C>", "<U+AB3D>",
      "<U+AB3E>", "<U+AB3F>", "<U+AB40>", "<U+AB41>", "<U+AB42>",
      "<U+AB43>", "<U+AB44>", "<U+AB45>", "<U+AB46>", "<U+AB47>",
      "<U+AB48>", "<U+AB49>", "<U+AB4A>", "<U+AB4B>", "<U+AB4C>",
      "<U+AB4D>", "<U+AB4E>", "<U+AB4F>", "<U+AB50>", "<U+AB51>",
      "<U+AB52>", "<U+AB53>", "<U+AB54>", "<U+AB55>", "<U+AB56>",
      "<U+AB57>", "<U+AB58>", "<U+AB59>", "<U+AB5A>", "<U+AB60>",
      "<U+AB61>", "<U+AB62>", "<U+AB63>", "<U+AB64>", "<U+AB65>",
      "<U+AB66>", "<U+AB67>", "<U+AB68>", "<U+AB70>", "<U+AB71>",
      "<U+AB72>", "<U+AB73>", "<U+AB74>", "<U+AB75>", "<U+AB76>",
      "<U+AB77>", "<U+AB78>", "<U+AB79>", "<U+AB7A>", "<U+AB7B>",
      "<U+AB7C>", "<U+AB7D>", "<U+AB7E>", "<U+AB7F>", "<U+AB80>", "ꮀ",
      "<U+AB81>", "ꮁ", "<U+AB82>", "ꮂ", "<U+AB83>", "ꮃ", "<U+AB84>", "ꮄ",
      "<U+AB85>", "ꮅ", "<U+AB86>", "ꮆ", "<U+AB87>", "ꮇ", "<U+AB88>", "ꮈ",
      "<U+AB89>", "ꮉ", "<U+AB8A>", "ꮊ", "<U+AB8B>", "ꮋ", "<U+AB8C>", "ꮌ",
      "<U+AB8D>", "ꮍ", "<U+AB8E>", "ꮎ", "<U+AB8F>", "ꮏ", "<U+AB90>", "ꮐ",
      "<U+AB91>", "ꮑ", "<U+AB92>", "ꮒ", "<U+AB93>", "ꮓ", "<U+AB94>", "ꮔ",
      "<U+AB95>", "ꮕ", "<U+AB96>", "ꮖ", "<U+AB97>", "ꮗ", "<U+AB98>", "ꮘ",
      "<U+AB99>", "ꮙ", "<U+AB9A>", "ꮚ", "<U+AB9B>", "ꮛ", "<U+AB9C>", "ꮜ",
      "<U+AB9D>", "ꮝ", "<U+AB9E>", "ꮞ", "<U+AB9F>", "ꮟ", "<U+ABA0>", "ꮠ",
      "<U+ABA1>", "ꮡ", "<U+ABA2>", "ꮢ", "<U+ABA3>", "ꮣ", "<U+ABA4>", "ꮤ",
      "<U+ABA5>", "ꮥ", "<U+ABA6>", "ꮦ", "<U+ABA7>", "ꮧ", "<U+ABA8>", "ꮨ",
      "<U+ABA9>", "ꮩ", "<U+ABAA>", "ꮪ", "<U+ABAB>", "ꮫ", "<U+ABAC>", "ꮬ",
      "<U+ABAD>", "ꮭ", "<U+ABAE>", "ꮮ", "<U+ABAF>", "ꮯ", "<U+ABB0>", "ꮰ",
      "<U+ABB1>", "ꮱ", "<U+ABB2>", "ꮲ", "<U+ABB3>", "ꮳ", "<U+ABB4>", "ꮴ",
      "<U+ABB5>", "ꮵ", "<U+ABB6>", "ꮶ", "<U+ABB7>", "ꮷ", "<U+ABB8>", "ꮸ",
      "<U+ABB9>", "ꮹ", "<U+ABBA>", "ꮺ", "<U+ABBB>", "ꮻ", "<U+ABBC>", "ꮼ",
      "<U+ABBD>", "ꮽ", "<U+ABBE>", "ꮾ", "<U+ABBF>", "ꮿ", "<U+FB00>",
      "<U+FB01>", "<U+FB02>", "<U+FB03>", "<U+FB04>", "<U+FB05>",
      "<U+FB06>", "<U+FB13>", "<U+FB14>", "<U+FB15>", "<U+FB16>",
      "<U+FB17>", "<U+FF21>", "<U+FF22>", "<U+FF23>", "<U+FF24>",
      "<U+FF25>", "<U+FF26>", "<U+FF27>", "<U+FF28>", "<U+FF29>",
      "<U+FF2A>", "<U+FF2B>", "<U+FF2C>", "<U+FF2D>", "<U+FF2E>",
      "<U+FF2F>", "<U+FF30>", "<U+FF31>", "<U+FF32>", "<U+FF33>",
      "<U+FF34>", "<U+FF35>", "<U+FF36>", "<U+FF37>", "<U+FF38>",
      "<U+FF39>", "<U+FF3A>", "<U+FF41>", "<U+FF42>", "<U+FF43>",
      "<U+FF44>", "<U+FF45>", "<U+FF46>", "<U+FF47>", "<U+FF48>",
      "<U+FF49>", "<U+FF4A>", "<U+FF4B>", "<U+FF4C>", "<U+FF4D>",
      "<U+FF4E>", "<U+FF4F>", "<U+FF50>", "<U+FF51>", "<U+FF52>",
      "<U+FF53>", "<U+FF54>", "<U+FF55>", "<U+FF56>", "<U+FF57>",
      "<U+FF58>", "<U+FF59>", "<U+FF5A>", "<U+10400>", "<U+10401>",
      "<U+10402>", "<U+10403>", "<U+10404>", "<U+10405>", "<U+10406>",
      "<U+10407>", "<U+10408>", "<U+10409>", "<U+1040A>", "<U+1040B>",
      "<U+1040C>", "<U+1040D>", "<U+1040E>", "<U+1040F>", "<U+10410>",
      "<U+10411>", "<U+10412>", "<U+10413>", "<U+10414>", "<U+10415>",
      "<U+10416>", "<U+10417>", "<U+10418>", "<U+10419>", "<U+1041A>",
      "<U+1041B>", "<U+1041C>", "<U+1041D>", "<U+1041E>", "<U+1041F>",
      "<U+10420>", "<U+10421>", "<U+10422>", "<U+10423>", "<U+10424>",
      "<U+10425>", "<U+10426>", "<U+10427>", "<U+10428>", "<U+10429>",
      "<U+1042A>", "<U+1042B>", "<U+1042C>", "<U+1042D>", "<U+1042E>",
      "<U+1042F>", "<U+10430>", "<U+10431>", "<U+10432>", "<U+10433>",
      "<U+10434>", "<U+10435>", "<U+10436>", "<U+10437>", "<U+10438>",
      "<U+10439>", "<U+1043A>", "<U+1043B>", "<U+1043C>", "<U+1043D>",
      "<U+1043E>", "<U+1043F>", "<U+10440>", "<U+10441>", "<U+10442>",
      "<U+10443>", "<U+10444>", "<U+10445>", "<U+10446>", "<U+10447>",
      "<U+10448>", "<U+10449>", "<U+1044A>", "<U+1044B>", "<U+1044C>",
      "<U+1044D>", "<U+1044E>", "<U+1044F>", "<U+104B0>", "<U+104B1>",
      "<U+104B2>", "<U+104B3>", "<U+104B4>", "<U+104B5>", "<U+104B6>",
      "<U+104B7>", "<U+104B8>", "<U+104B9>", "<U+104BA>", "<U+104BB>",
      "<U+104BC>", "<U+104BD>", "<U+104BE>", "<U+104BF>", "<U+104C0>",
      "<U+104C1>", "<U+104C2>", "<U+104C3>", "<U+104C4>", "<U+104C5>",
      "<U+104C6>", "<U+104C7>", "<U+104C8>", "<U+104C9>", "<U+104CA>",
      "<U+104CB>", "<U+104CC>", "<U+104CD>", "<U+104CE>", "<U+104CF>",
      "<U+104D0>", "<U+104D1>", "<U+104D2>", "<U+104D3>", "<U+104D8>",
      "<U+104D9>", "<U+104DA>", "<U+104DB>", "<U+104DC>", "<U+104DD>",
      "<U+104DE>", "<U+104DF>", "<U+104E0>", "<U+104E1>", "<U+104E2>",
      "<U+104E3>", "<U+104E4>", "<U+104E5>", "<U+104E6>", "<U+104E7>",
      "<U+104E8>", "<U+104E9>", "<U+104EA>", "<U+104EB>", "<U+104EC>",
      "<U+104ED>", "<U+104EE>", "<U+104EF>", "<U+104F0>", "<U+104F1>",
      "<U+104F2>", "<U+104F3>", "<U+104F4>", "<U+104F5>", "<U+104F6>",
      "<U+104F7>", "<U+104F8>", "<U+104F9>", "<U+104FA>", "<U+104FB>",
      "<U+10570>", "<U+10571>", "<U+10572>", "<U+10573>", "<U+10574>",
      "<U+10575>", "<U+10576>", "<U+10577>", "<U+10578>", "<U+10579>",
      "<U+1057A>", "<U+1057C>", "<U+1057D>", "<U+1057E>", "<U+1057F>",
      "<U+10580>", "<U+10581>", "<U+10582>", "<U+10583>", "<U+10584>",
      "<U+10585>", "<U+10586>", "<U+10587>", "<U+10588>", "<U+10589>",
      "<U+1058A>", "<U+1058C>", "<U+1058D>", "<U+1058E>", "<U+1058F>",
      "<U+10590>", "<U+10591>", "<U+10592>", "<U+10594>", "<U+10595>",
      "<U+10597>", "<U+10598>", "<U+10599>", "<U+1059A>", "<U+1059B>",
      "<U+1059C>", "<U+1059D>", "<U+1059E>", "<U+1059F>", "<U+105A0>",
      "<U+105A1>", "<U+105A3>", "<U+105A4>", "<U+105A5>", "<U+105A6>",
      "<U+105A7>", "<U+105A8>", "<U+105A9>", "<U+105AA>", "<U+105AB>",
      "<U+105AC>", "<U+105AD>", "<U+105AE>", "<U+105AF>", "<U+105B0>",
      "<U+105B1>", "<U+105B3>", "<U+105B4>", "<U+105B5>", "<U+105B6>",
      "<U+105B7>", "<U+105B8>", "<U+105B9>", "<U+105BB>", "<U+105BC>",
      "<U+10C80>", "<U+10C81>", "<U+10C82>", "<U+10C83>", "<U+10C84>",
      "<U+10C85>", "<U+10C86>", "<U+10C87>", "<U+10C88>", "<U+10C89>",
      "<U+10C8A>", "<U+10C8B>", "<U+10C8C>", "<U+10C8D>", "<U+10C8E>",
      "<U+10C8F>", "<U+10C90>", "<U+10C91>", "<U+10C92>", "<U+10C93>",
      "<U+10C94>", "<U+10C95>", "<U+10C96>", "<U+10C97>", "<U+10C98>",
      "<U+10C99>", "<U+10C9A>", "<U+10C9B>", "<U+10C9C>", "<U+10C9D>",
      "<U+10C9E>", "<U+10C9F>", "<U+10CA0>", "<U+10CA1>", "<U+10CA2>",
      "<U+10CA3>", "<U+10CA4>", "<U+10CA5>", "<U+10CA6>", "<U+10CA7>",
      "<U+10CA8>", "<U+10CA9>", "<U+10CAA>", "<U+10CAB>", "<U+10CAC>",
      "<U+10CAD>", "<U+10CAE>", "<U+10CAF>", "<U+10CB0>", "<U+10CB1>",
      "<U+10CB2>", "<U+10CC0>", "<U+10CC1>", "<U+10CC2>", "<U+10CC3>",
      "<U+10CC4>", "<U+10CC5>", "<U+10CC6>", "<U+10CC7>", "<U+10CC8>",
      "<U+10CC9>", "<U+10CCA>", "<U+10CCB>", "<U+10CCC>", "<U+10CCD>",
      "<U+10CCE>", "<U+10CCF>", "<U+10CD0>", "<U+10CD1>", "<U+10CD2>",
      "<U+10CD3>", "<U+10CD4>", "<U+10CD5>", "<U+10CD6>", "<U+10CD7>",
      "<U+10CD8>", "<U+10CD9>", "<U+10CDA>", "<U+10CDB>", "<U+10CDC>",
      "<U+10CDD>", "<U+10CDE>", "<U+10CDF>", "<U+10CE0>", "<U+10CE1>",
      "<U+10CE2>", "<U+10CE3>", "<U+10CE4>", "<U+10CE5>", "<U+10CE6>",
      "<U+10CE7>", "<U+10CE8>", "<U+10CE9>", "<U+10CEA>", "<U+10CEB>",
      "<U+10CEC>", "<U+10CED>", "<U+10CEE>", "<U+10CEF>", "<U+10CF0>",
      "<U+10CF1>", "<U+10CF2>", "<U+118A0>", "<U+118A1>", "<U+118A2>",
      "<U+118A3>", "<U+118A4>", "<U+118A5>", "<U+118A6>", "<U+118A7>",
      "<U+118A8>", "<U+118A9>", "<U+118AA>", "<U+118AB>", "<U+118AC>",
      "<U+118AD>", "<U+118AE>", "<U+118AF>", "<U+118B0>", "<U+118B1>",
      "<U+118B2>", "<U+118B3>", "<U+118B4>", "<U+118B5>", "<U+118B6>",
      "<U+118B7>", "<U+118B8>", "<U+118B9>", "<U+118BA>", "<U+118BB>",
      "<U+118BC>", "<U+118BD>", "<U+118BE>", "<U+118BF>", "<U+118C0>",
      "<U+118C1>", "<U+118C2>", "<U+118C3>", "<U+118C4>", "<U+118C5>",
      "<U+118C6>", "<U+118C7>", "<U+118C8>", "<U+118C9>", "<U+118CA>",
      "<U+118CB>", "<U+118CC>", "<U+118CD>", "<U+118CE>", "<U+118CF>",
      "<U+118D0>", "<U+118D1>", "<U+118D2>", "<U+118D3>", "<U+118D4>",
      "<U+118D5>", "<U+118D6>", "<U+118D7>", "<U+118D8>", "<U+118D9>",
      "<U+118DA>", "<U+118DB>", "<U+118DC>", "<U+118DD>", "<U+118DE>",
      "<U+118DF>", "<U+16E40>", "<U+16E41>", "<U+16E42>", "<U+16E43>",
      "<U+16E44>", "<U+16E45>", "<U+16E46>", "<U+16E47>", "<U+16E48>",
      "<U+16E49>", "<U+16E4A>", "<U+16E4B>", "<U+16E4C>", "<U+16E4D>",
      "<U+16E4E>", "<U+16E4F>", "<U+16E50>", "<U+16E51>", "<U+16E52>",
      "<U+16E53>", "<U+16E54>", "<U+16E55>", "<U+16E56>", "<U+16E57>",
      "<U+16E58>", "<U+16E59>", "<U+16E5A>", "<U+16E5B>", "<U+16E5C>",
      "<U+16E5D>", "<U+16E5E>", "<U+16E5F>", "<U+16E60>", "<U+16E61>",
      "<U+16E62>", "<U+16E63>", "<U+16E64>", "<U+16E65>", "<U+16E66>",
      "<U+16E67>", "<U+16E68>", "<U+16E69>", "<U+16E6A>", "<U+16E6B>",
      "<U+16E6C>", "<U+16E6D>", "<U+16E6E>", "<U+16E6F>", "<U+16E70>",
      "<U+16E71>", "<U+16E72>", "<U+16E73>", "<U+16E74>", "<U+16E75>",
      "<U+16E76>", "<U+16E77>", "<U+16E78>", "<U+16E79>", "<U+16E7A>",
      "<U+16E7B>", "<U+16E7C>", "<U+16E7D>", "<U+16E7E>", "<U+16E7F>",
      "<U+1D400>", "<U+1D401>", "<U+1D402>", "<U+1D403>", "<U+1D404>",
      "<U+1D405>", "<U+1D406>", "<U+1D407>", "<U+1D408>", "<U+1D409>",
      "<U+1D40A>", "<U+1D40B>", "<U+1D40C>", "<U+1D40D>", "<U+1D40E>",
      "<U+1D40F>", "<U+1D410>", "<U+1D411>", "<U+1D412>", "<U+1D413>",
      "<U+1D414>", "<U+1D415>", "<U+1D416>", "<U+1D417>", "<U+1D418>",
      "<U+1D419>", "<U+1D41A>", "<U+1D41B>", "<U+1D41C>", "<U+1D41D>",
      "<U+1D41E>", "<U+1D41F>", "<U+1D420>", "<U+1D421>", "<U+1D422>",
      "<U+1D423>", "<U+1D424>", "<U+1D425>", "<U+1D426>", "<U+1D427>",
      "<U+1D428>", "<U+1D429>", "<U+1D42A>", "<U+1D42B>", "<U+1D42C>",
      "<U+1D42D>", "<U+1D42E>", "<U+1D42F>", "<U+1D430>", "<U+1D431>",
      "<U+1D432>", "<U+1D433>", "<U+1D434>", "<U+1D435>", "<U+1D436>",
      "<U+1D437>", "<U+1D438>", "<U+1D439>", "<U+1D43A>", "<U+1D43B>",
      "<U+1D43C>", "<U+1D43D>", "<U+1D43E>", "<U+1D43F>", "<U+1D440>",
      "<U+1D441>", "<U+1D442>", "<U+1D443>", "<U+1D444>", "<U+1D445>",
      "<U+1D446>", "<U+1D447>", "<U+1D448>", "<U+1D449>", "<U+1D44A>",
      "<U+1D44B>", "<U+1D44C>", "<U+1D44D>", "<U+1D44E>", "<U+1D44F>",
      "<U+1D450>", "<U+1D451>", "<U+1D452>", "<U+1D453>", "<U+1D454>",
      "<U+1D456>", "<U+1D457>", "<U+1D458>", "<U+1D459>", "<U+1D45A>",
      "<U+1D45B>", "<U+1D45C>", "<U+1D45D>", "<U+1D45E>", "<U+1D45F>",
      "<U+1D460>", "<U+1D461>", "<U+1D462>", "<U+1D463>", "<U+1D464>",
      "<U+1D465>", "<U+1D466>", "<U+1D467>", "<U+1D468>", "<U+1D469>",
      "<U+1D46A>", "<U+1D46B>", "<U+1D46C>", "<U+1D46D>", "<U+1D46E>",
      "<U+1D46F>", "<U+1D470>", "<U+1D471>", "<U+1D472>", "<U+1D473>",
      "<U+1D474>", "<U+1D475>", "<U+1D476>", "<U+1D477>", "<U+1D478>",
      "<U+1D479>", "<U+1D47A>", "<U+1D47B>", "<U+1D47C>", "<U+1D47D>",
      "<U+1D47E>", "<U+1D47F>", "<U+1D480>", "<U+1D481>", "<U+1D482>",
      "<U+1D483>", "<U+1D484>", "<U+1D485>", "<U+1D486>", "<U+1D487>",
      "<U+1D488>", "<U+1D489>", "<U+1D48A>", "<U+1D48B>", "<U+1D48C>",
      "<U+1D48D>", "<U+1D48E>", "<U+1D48F>", "<U+1D490>", "<U+1D491>",
      "<U+1D492>", "<U+1D493>", "<U+1D494>", "<U+1D495>", "<U+1D496>",
      "<U+1D497>", "<U+1D498>", "<U+1D499>", "<U+1D49A>", "<U+1D49B>",
      "<U+1D49C>", "<U+1D49E>", "<U+1D49F>", "<U+1D4A2>", "<U+1D4A5>",
      "<U+1D4A6>", "<U+1D4A9>", "<U+1D4AA>", "<U+1D4AB>", "<U+1D4AC>",
      "<U+1D4AE>", "<U+1D4AF>", "<U+1D4B0>", "<U+1D4B1>", "<U+1D4B2>",
      "<U+1D4B3>", "<U+1D4B4>", "<U+1D4B5>", "<U+1D4B6>", "<U+1D4B7>",
      "<U+1D4B8>", "<U+1D4B9>", "<U+1D4BB>", "<U+1D4BD>", "<U+1D4BE>",
      "<U+1D4BF>", "<U+1D4C0>", "<U+1D4C1>", "<U+1D4C2>", "<U+1D4C3>",
      "<U+1D4C5>", "<U+1D4C6>", "<U+1D4C7>", "<U+1D4C8>", "<U+1D4C9>",
      "<U+1D4CA>", "<U+1D4CB>", "<U+1D4CC>", "<U+1D4CD>", "<U+1D4CE>",
      "<U+1D4CF>", "<U+1D4D0>", "<U+1D4D1>", "<U+1D4D2>", "<U+1D4D3>",
      "<U+1D4D4>", "<U+1D4D5>", "<U+1D4D6>", "<U+1D4D7>", "<U+1D4D8>",
      "<U+1D4D9>", "<U+1D4DA>", "<U+1D4DB>", "<U+1D4DC>", "<U+1D4DD>",
      "<U+1D4DE>", "<U+1D4DF>", "<U+1D4E0>", "<U+1D4E1>", "<U+1D4E2>",
      "<U+1D4E3>", "<U+1D4E4>", "<U+1D4E5>", "<U+1D4E6>", "<U+1D4E7>",
      "<U+1D4E8>", "<U+1D4E9>", "<U+1D4EA>", "<U+1D4EB>", "<U+1D4EC>",
      "<U+1D4ED>", "<U+1D4EE>", "<U+1D4EF>", "<U+1D4F0>", "<U+1D4F1>",
      "<U+1D4F2>", "<U+1D4F3>", "<U+1D4F4>", "<U+1D4F5>", "<U+1D4F6>",
      "<U+1D4F7>", "<U+1D4F8>", "<U+1D4F9>", "<U+1D4FA>", "<U+1D4FB>",
      "<U+1D4FC>", "<U+1D4FD>", "<U+1D4FE>", "<U+1D4FF>", "<U+1D500>",
      "<U+1D501>", "<U+1D502>", "<U+1D503>", "<U+1D504>", "<U+1D505>",
      "<U+1D507>", "<U+1D508>", "<U+1D509>", "<U+1D50A>", "<U+1D50D>",
      "<U+1D50E>", "<U+1D50F>", "<U+1D510>", "<U+1D511>", "<U+1D512>",
      "<U+1D513>", "<U+1D514>", "<U+1D516>", "<U+1D517>", "<U+1D518>",
      "<U+1D519>", "<U+1D51A>", "<U+1D51B>", "<U+1D51C>", "<U+1D51E>",
      "<U+1D51F>", "<U+1D520>", "<U+1D521>", "<U+1D522>", "<U+1D523>",
      "<U+1D524>", "<U+1D525>", "<U+1D526>", "<U+1D527>", "<U+1D528>",
      "<U+1D529>", "<U+1D52A>", "<U+1D52B>", "<U+1D52C>", "<U+1D52D>",
      "<U+1D52E>", "<U+1D52F>", "<U+1D530>", "<U+1D531>", "<U+1D532>",
      "<U+1D533>", "<U+1D534>", "<U+1D535>", "<U+1D536>", "<U+1D537>",
      "<U+1D538>", "<U+1D539>", "<U+1D53B>", "<U+1D53C>", "<U+1D53D>",
      "<U+1D53E>", "<U+1D540>", "<U+1D541>", "<U+1D542>", "<U+1D543>",
      "<U+1D544>", "<U+1D546>", "<U+1D54A>", "<U+1D54B>", "<U+1D54C>",
      "<U+1D54D>", "<U+1D54E>", "<U+1D54F>", "<U+1D550>", "<U+1D552>",
      "<U+1D553>", "<U+1D554>", "<U+1D555>", "<U+1D556>", "<U+1D557>",
      "<U+1D558>", "<U+1D559>", "<U+1D55A>", "<U+1D55B>", "<U+1D55C>",
      "<U+1D55D>", "<U+1D55E>", "<U+1D55F>", "<U+1D560>", "<U+1D561>",
      "<U+1D562>", "<U+1D563>", "<U+1D564>", "<U+1D565>", "<U+1D566>",
      "<U+1D567>", "<U+1D568>", "<U+1D569>", "<U+1D56A>", "<U+1D56B>",
      "<U+1D56C>", "<U+1D56D>", "<U+1D56E>", "<U+1D56F>", "<U+1D570>",
      "<U+1D571>", "<U+1D572>", "<U+1D573>", "<U+1D574>", "<U+1D575>",
      "<U+1D576>", "<U+1D577>", "<U+1D578>", "<U+1D579>", "<U+1D57A>",
      "<U+1D57B>", "<U+1D57C>", "<U+1D57D>", "<U+1D57E>", "<U+1D57F>",
      "<U+1D580>", "<U+1D581>", "<U+1D582>", "<U+1D583>", "<U+1D584>",
      "<U+1D585>", "<U+1D586>", "<U+1D587>", "<U+1D588>", "<U+1D589>",
      "<U+1D58A>", "<U+1D58B>", "<U+1D58C>", "<U+1D58D>", "<U+1D58E>",
      "<U+1D58F>", "<U+1D590>", "<U+1D591>", "<U+1D592>", "<U+1D593>",
      "<U+1D594>", "<U+1D595>", "<U+1D596>", "<U+1D597>", "<U+1D598>",
      "<U+1D599>", "<U+1D59A>", "<U+1D59B>", "<U+1D59C>", "<U+1D59D>",
      "<U+1D59E>", "<U+1D59F>", "<U+1D5A0>", "<U+1D5A1>", "<U+1D5A2>",
      "<U+1D5A3>", "<U+1D5A4>", "<U+1D5A5>", "<U+1D5A6>", "<U+1D5A7>",
      "<U+1D5A8>", "<U+1D5A9>", "<U+1D5AA>", "<U+1D5AB>", "<U+1D5AC>",
      "<U+1D5AD>", "<U+1D5AE>", "<U+1D5AF>", "<U+1D5B0>", "<U+1D5B1>",
      "<U+1D5B2>", "<U+1D5B3>", "<U+1D5B4>", "<U+1D5B5>", "<U+1D5B6>",
      "<U+1D5B7>", "<U+1D5B8>", "<U+1D5B9>", "<U+1D5BA>", "<U+1D5BB>",
      "<U+1D5BC>", "<U+1D5BD>", "<U+1D5BE>", "<U+1D5BF>", "<U+1D5C0>",
      "<U+1D5C1>", "<U+1D5C2>", "<U+1D5C3>", "<U+1D5C4>", "<U+1D5C5>",
      "<U+1D5C6>", "<U+1D5C7>", "<U+1D5C8>", "<U+1D5C9>", "<U+1D5CA>",
      "<U+1D5CB>", "<U+1D5CC>", "<U+1D5CD>", "<U+1D5CE>", "<U+1D5CF>",
      "<U+1D5D0>", "<U+1D5D1>", "<U+1D5D2>", "<U+1D5D3>", "<U+1D5D4>",
      "<U+1D5D5>", "<U+1D5D6>", "<U+1D5D7>", "<U+1D5D8>", "<U+1D5D9>",
      "<U+1D5DA>", "<U+1D5DB>", "<U+1D5DC>", "<U+1D5DD>", "<U+1D5DE>",
      "<U+1D5DF>", "<U+1D5E0>", "<U+1D5E1>", "<U+1D5E2>", "<U+1D5E3>",
      "<U+1D5E4>", "<U+1D5E5>", "<U+1D5E6>", "<U+1D5E7>", "<U+1D5E8>",
      "<U+1D5E9>", "<U+1D5EA>", "<U+1D5EB>", "<U+1D5EC>", "<U+1D5ED>",
      "<U+1D5EE>", "<U+1D5EF>", "<U+1D5F0>", "<U+1D5F1>", "<U+1D5F2>",
      "<U+1D5F3>", "<U+1D5F4>", "<U+1D5F5>", "<U+1D5F6>", "<U+1D5F7>",
      "<U+1D5F8>", "<U+1D5F9>", "<U+1D5FA>", "<U+1D5FB>", "<U+1D5FC>",
      "<U+1D5FD>", "<U+1D5FE>", "<U+1D5FF>", "<U+1D600>", "<U+1D601>",
      "<U+1D602>", "<U+1D603>", "<U+1D604>", "<U+1D605>", "<U+1D606>",
      "<U+1D607>", "<U+1D608>", "<U+1D609>", "<U+1D60A>", "<U+1D60B>",
      "<U+1D60C>", "<U+1D60D>", "<U+1D60E>", "<U+1D60F>", "<U+1D610>",
      "<U+1D611>", "<U+1D612>", "<U+1D613>", "<U+1D614>", "<U+1D615>",
      "<U+1D616>", "<U+1D617>", "<U+1D618>", "<U+1D619>", "<U+1D61A>",
      "<U+1D61B>", "<U+1D61C>", "<U+1D61D>", "<U+1D61E>", "<U+1D61F>",
      "<U+1D620>", "<U+1D621>", "<U+1D622>", "<U+1D623>", "<U+1D624>",
      "<U+1D625>", "<U+1D626>", "<U+1D627>", "<U+1D628>", "<U+1D629>",
      "<U+1D62A>", "<U+1D62B>", "<U+1D62C>", "<U+1D62D>", "<U+1D62E>",
      "<U+1D62F>", "<U+1D630>", "<U+1D631>", "<U+1D632>", "<U+1D633>",
      "<U+1D634>", "<U+1D635>", "<U+1D636>", "<U+1D637>", "<U+1D638>",
      "<U+1D639>", "<U+1D63A>", "<U+1D63B>", "<U+1D63C>", "<U+1D63D>",
      "<U+1D63E>", "<U+1D63F>", "<U+1D640>", "<U+1D641>", "<U+1D642>",
      "<U+1D643>", "<U+1D644>", "<U+1D645>", "<U+1D646>", "<U+1D647>",
      "<U+1D648>", "<U+1D649>", "<U+1D64A>", "<U+1D64B>", "<U+1D64C>",
      "<U+1D64D>", "<U+1D64E>", "<U+1D64F>", "<U+1D650>", "<U+1D651>",
      "<U+1D652>", "<U+1D653>", "<U+1D654>", "<U+1D655>", "<U+1D656>",
      "<U+1D657>", "<U+1D658>", "<U+1D659>", "<U+1D65A>", "<U+1D65B>",
      "<U+1D65C>", "<U+1D65D>", "<U+1D65E>", "<U+1D65F>", "<U+1D660>",
      "<U+1D661>", "<U+1D662>", "<U+1D663>", "<U+1D664>", "<U+1D665>",
      "<U+1D666>", "<U+1D667>", "<U+1D668>", "<U+1D669>", "<U+1D66A>",
      "<U+1D66B>", "<U+1D66C>", "<U+1D66D>", "<U+1D66E>", "<U+1D66F>",
      "<U+1D670>", "<U+1D671>", "<U+1D672>", "<U+1D673>", "<U+1D674>",
      "<U+1D675>", "<U+1D676>", "<U+1D677>", "<U+1D678>", "<U+1D679>",
      "<U+1D67A>", "<U+1D67B>", "<U+1D67C>", "<U+1D67D>", "<U+1D67E>",
      "<U+1D67F>", "<U+1D680>", "<U+1D681>", "<U+1D682>", "<U+1D683>",
      "<U+1D684>", "<U+1D685>", "<U+1D686>", "<U+1D687>", "<U+1D688>",
      "<U+1D689>", "<U+1D68A>", "<U+1D68B>", "<U+1D68C>", "<U+1D68D>",
      "<U+1D68E>", "<U+1D68F>", "<U+1D690>", "<U+1D691>", "<U+1D692>",
      "<U+1D693>", "<U+1D694>", "<U+1D695>", "<U+1D696>", "<U+1D697>",
      "<U+1D698>", "<U+1D699>", "<U+1D69A>", "<U+1D69B>", "<U+1D69C>",
      "<U+1D69D>", "<U+1D69E>", "<U+1D69F>", "<U+1D6A0>", "<U+1D6A1>",
      "<U+1D6A2>", "<U+1D6A3>", "<U+1D6A4>", "<U+1D6A5>", "<U+1D6A8>",
      "<U+1D6A9>", "<U+1D6AA>", "<U+1D6AB>", "<U+1D6AC>", "<U+1D6AD>",
      "<U+1D6AE>", "<U+1D6AF>", "<U+1D6B0>", "<U+1D6B1>", "<U+1D6B2>",
      "<U+1D6B3>", "<U+1D6B4>", "<U+1D6B5>", "<U+1D6B6>", "<U+1D6B7>",
      "<U+1D6B8>", "<U+1D6B9>", "<U+1D6BA>", "<U+1D6BB>", "<U+1D6BC>",
      "<U+1D6BD>", "<U+1D6BE>", "<U+1D6BF>", "<U+1D6C0>", "<U+1D6C2>",
      "<U+1D6C3>", "<U+1D6C4>", "<U+1D6C5>", "<U+1D6C6>", "<U+1D6C7>",
      "<U+1D6C8>", "<U+1D6C9>", "<U+1D6CA>", "<U+1D6CB>", "<U+1D6CC>",
      "<U+1D6CD>", "<U+1D6CE>", "<U+1D6CF>", "<U+1D6D0>", "<U+1D6D1>",
      "<U+1D6D2>", "<U+1D6D3>", "<U+1D6D4>", "<U+1D6D5>", "<U+1D6D6>",
      "<U+1D6D7>", "<U+1D6D8>", "<U+1D6D9>", "<U+1D6DA>", "<U+1D6DC>",
      "<U+1D6DD>", "<U+1D6DE>", "<U+1D6DF>", "<U+1D6E0>", "<U+1D6E1>",
      "<U+1D6E2>", "<U+1D6E3>", "<U+1D6E4>", "<U+1D6E5>", "<U+1D6E6>",
      "<U+1D6E7>", "<U+1D6E8>", "<U+1D6E9>", "<U+1D6EA>", "<U+1D6EB>",
      "<U+1D6EC>", "<U+1D6ED>", "<U+1D6EE>", "<U+1D6EF>", "<U+1D6F0>",
      "<U+1D6F1>", "<U+1D6F2>", "<U+1D6F3>", "<U+1D6F4>", "<U+1D6F5>",
      "<U+1D6F6>", "<U+1D6F7>", "<U+1D6F8>", "<U+1D6F9>", "<U+1D6FA>",
      "<U+1D6FC>", "<U+1D6FD>", "<U+1D6FE>", "<U+1D6FF>", "<U+1D700>",
      "<U+1D701>", "<U+1D702>", "<U+1D703>", "<U+1D704>", "<U+1D705>",
      "<U+1D706>", "<U+1D707>", "<U+1D708>", "<U+1D709>", "<U+1D70A>",
      "<U+1D70B>", "<U+1D70C>", "<U+1D70D>", "<U+1D70E>", "<U+1D70F>",
      "<U+1D710>", "<U+1D711>", "<U+1D712>", "<U+1D713>", "<U+1D714>",
      "<U+1D716>", "<U+1D717>", "<U+1D718>", "<U+1D719>", "<U+1D71A>",
      "<U+1D71B>", "<U+1D71C>", "<U+1D71D>", "<U+1D71E>", "<U+1D71F>",
      "<U+1D720>", "<U+1D721>", "<U+1D722>", "<U+1D723>", "<U+1D724>",
      "<U+1D725>", "<U+1D726>", "<U+1D727>", "<U+1D728>", "<U+1D729>",
      "<U+1D72A>", "<U+1D72B>", "<U+1D72C>", "<U+1D72D>", "<U+1D72E>",
      "<U+1D72F>", "<U+1D730>", "<U+1D731>", "<U+1D732>", "<U+1D733>",
      "<U+1D734>", "<U+1D736>", "<U+1D737>", "<U+1D738>", "<U+1D739>",
      "<U+1D73A>", "<U+1D73B>", "<U+1D73C>", "<U+1D73D>", "<U+1D73E>",
      "<U+1D73F>", "<U+1D740>", "<U+1D741>", "<U+1D742>", "<U+1D743>",
      "<U+1D744>", "<U+1D745>", "<U+1D746>", "<U+1D747>", "<U+1D748>",
      "<U+1D749>", "<U+1D74A>", "<U+1D74B>", "<U+1D74C>", "<U+1D74D>",
      "<U+1D74E>", "<U+1D750>", "<U+1D751>", "<U+1D752>", "<U+1D753>",
      "<U+1D754>", "<U+1D755>", "<U+1D756>", "<U+1D757>", "<U+1D758>",
      "<U+1D759>", "<U+1D75A>", "<U+1D75B>", "<U+1D75C>", "<U+1D75D>",
      "<U+1D75E>", "<U+1D75F>", "<U+1D760>", "<U+1D761>", "<U+1D762>",
      "<U+1D763>", "<U+1D764>", "<U+1D765>", "<U+1D766>", "<U+1D767>",
      "<U+1D768>", "<U+1D769>", "<U+1D76A>", "<U+1D76B>", "<U+1D76C>",
      "<U+1D76D>", "<U+1D76E>", "<U+1D770>", "<U+1D771>", "<U+1D772>",
      "<U+1D773>", "<U+1D774>", "<U+1D775>", "<U+1D776>", "<U+1D777>",
      "<U+1D778>", "<U+1D779>", "<U+1D77A>", "<U+1D77B>", "<U+1D77C>",
      "<U+1D77D>", "<U+1D77E>", "<U+1D77F>", "<U+1D780>", "<U+1D781>",
      "<U+1D782>", "<U+1D783>", "<U+1D784>", "<U+1D785>", "<U+1D786>",
      "<U+1D787>", "<U+1D788>", "<U+1D78A>", "<U+1D78B>", "<U+1D78C>",
      "<U+1D78D>", "<U+1D78E>", "<U+1D78F>", "<U+1D790>", "<U+1D791>",
      "<U+1D792>", "<U+1D793>", "<U+1D794>", "<U+1D795>", "<U+1D796>",
      "<U+1D797>", "<U+1D798>", "<U+1D799>", "<U+1D79A>", "<U+1D79B>",
      "<U+1D79C>", "<U+1D79D>", "<U+1D79E>", "<U+1D79F>", "<U+1D7A0>",
      "<U+1D7A1>", "<U+1D7A2>", "<U+1D7A3>", "<U+1D7A4>", "<U+1D7A5>",
      "<U+1D7A6>", "<U+1D7A7>", "<U+1D7A8>", "<U+1D7AA>", "<U+1D7AB>",
      "<U+1D7AC>", "<U+1D7AD>", "<U+1D7AE>", "<U+1D7AF>", "<U+1D7B0>",
      "<U+1D7B1>", "<U+1D7B2>", "<U+1D7B3>", "<U+1D7B4>", "<U+1D7B5>",
      "<U+1D7B6>", "<U+1D7B7>", "<U+1D7B8>", "<U+1D7B9>", "<U+1D7BA>",
      "<U+1D7BB>", "<U+1D7BC>", "<U+1D7BD>", "<U+1D7BE>", "<U+1D7BF>",
      "<U+1D7C0>", "<U+1D7C1>", "<U+1D7C2>", "<U+1D7C4>", "<U+1D7C5>",
      "<U+1D7C6>", "<U+1D7C7>", "<U+1D7C8>", "<U+1D7C9>", "<U+1D7CA>",
      "<U+1D7CB>", "<U+1DF00>", "<U+1DF01>", "<U+1DF02>", "<U+1DF03>",
      "<U+1DF04>", "<U+1DF05>", "<U+1DF06>", "<U+1DF07>", "<U+1DF08>",
      "<U+1DF09>", "<U+1DF0B>", "<U+1DF0C>", "<U+1DF0D>", "<U+1DF0E>",
      "<U+1DF0F>", "<U+1DF10>", "<U+1DF11>", "<U+1DF12>", "<U+1DF13>",
      "<U+1DF14>", "<U+1DF15>", "<U+1DF16>", "<U+1DF17>", "<U+1DF18>",
      "<U+1DF19>", "<U+1DF1A>", "<U+1DF1B>", "<U+1DF1C>", "<U+1DF1D>",
      "<U+1DF1E>", "<U+1E900>", "<U+1E901>", "<U+1E902>", "<U+1E903>",
      "<U+1E904>", "<U+1E905>", "<U+1E906>", "<U+1E907>", "<U+1E908>",
      "<U+1E909>", "<U+1E90A>", "<U+1E90B>", "<U+1E90C>", "<U+1E90D>",
      "<U+1E90E>", "<U+1E90F>", "<U+1E910>", "<U+1E911>", "<U+1E912>",
      "<U+1E913>", "<U+1E914>", "<U+1E915>", "<U+1E916>", "<U+1E917>",
      "<U+1E918>", "<U+1E919>", "<U+1E91A>", "<U+1E91B>", "<U+1E91C>",
      "<U+1E91D>", "<U+1E91E>", "<U+1E91F>", "<U+1E920>", "<U+1E921>",
      "<U+1E922>", "<U+1E923>", "<U+1E924>", "<U+1E925>", "<U+1E926>",
      "<U+1E927>", "<U+1E928>", "<U+1E929>", "<U+1E92A>", "<U+1E92B>",
      "<U+1E92C>", "<U+1E92D>", "<U+1E92E>", "<U+1E92F>", "<U+1E930>",
      "<U+1E931>", "<U+1E932>", "<U+1E933>", "<U+1E934>", "<U+1E935>",
      "<U+1E936>", "<U+1E937>", "<U+1E938>", "<U+1E939>", "<U+1E93A>",
      "<U+1E93B>", "<U+1E93C>", "<U+1E93D>", "<U+1E93E>", "<U+1E93F>",
      "<U+1E940>", "<U+1E941>", "<U+1E942>", "<U+1E943>", "<U+1F130>",
      "<U+1F131>", "<U+1F132>", "<U+1F133>", "<U+1F134>", "<U+1F135>",
      "<U+1F136>", "<U+1F137>", "<U+1F138>", "<U+1F139>", "<U+1F13A>",
      "<U+1F13B>", "<U+1F13C>", "<U+1F13D>", "<U+1F13E>", "<U+1F13F>",
      "<U+1F140>", "<U+1F141>", "<U+1F142>", "<U+1F143>", "<U+1F144>",
      "<U+1F145>", "<U+1F146>", "<U+1F147>", "<U+1F148>", "<U+1F149>",
      "<U+1F150>", "<U+1F151>", "<U+1F152>", "<U+1F153>", "<U+1F154>",
      "<U+1F155>", "<U+1F156>", "<U+1F157>", "<U+1F158>", "<U+1F159>",
      "<U+1F15A>", "<U+1F15B>", "<U+1F15C>", "<U+1F15D>", "<U+1F15E>",
      "<U+1F15F>", "<U+1F160>", "<U+1F161>", "<U+1F162>", "<U+1F163>",
      "<U+1F164>", "<U+1F165>", "<U+1F166>", "<U+1F167>", "<U+1F168>",
      "<U+1F169>", "<U+1F170>", "<U+1F171>", "<U+1F172>", "<U+1F173>",
      "<U+1F174>", "<U+1F175>", "<U+1F176>", "<U+1F177>", "<U+1F178>",
      "<U+1F179>", "<U+1F17A>", "<U+1F17B>", "<U+1F17C>", "<U+1F17D>",
      "<U+1F17E>", "<U+1F17F>", "<U+1F180>", "<U+1F181>", "<U+1F182>",
      "<U+1F183>", "<U+1F184>", "<U+1F185>", "<U+1F186>", "<U+1F187>",
      "<U+1F188>", "<U+1F189>" }

\* str.lower() of one character: the tuple of the characters it becomes
\* (one, or two for U+0130), the character itself when it has no lower
\* case.  The capital sigma, whose lower case depends on its neighbours,
\* is lowered by LowerAt.
LowerTable ==
    [c \in {p[1] : p \in LowerPairs} |->
        (CHOOSE p \in LowerPairs : p[1] = c)[2]]
LowerChar(c) == IF c \in DOMAIN LowerTable THEN LowerTable[c] ELSE <<c>>

\* The capital sigma at position i is in the Final_Sigma context: the
\* nearest character before it that is not case-ignorable is cased, and
\* the nearest character after it that is not case-ignorable, if there is
\* one, is not cased.
FinalSigma(str, i) ==
    LET before == {j \in 1..(i - 1) : str[j] \notin CaseIgnorable}
        after == {j \in (i + 1)..Len(str) : str[j] \notin CaseIgnorable}
        prev == CHOOSE j \in before : \A k \in before : k <= j
        next == CHOOSE j \in after : \A k \in after : j <= k
    IN  /\ before # {}
        /\ str[prev] \in CasedNotIgnorable
        /\ after # {} => str[next] \notin CasedNotIgnorable

\* the lower case of the character at position i of str
LowerAt(str, i) ==
    IF \E f \in Sigmas : f.capital = str[i]
    THEN LET f == CHOOSE g \in Sigmas : g.capital = str[i]
         IN  << IF FinalSigma(str, i) THEN f.final ELSE f.small >>
    ELSE LowerChar(str[i])

RECURSIVE LowerFrom(_, _)
LowerFrom(str, i) ==
    IF i > Len(str) THEN <<>> ELSE LowerAt(str, i) \o LowerFrom(str, i + 1)

\* str.lower()
Lower(str) == LowerFrom(str, 1)

\* sub in str
Contains(sub, str) ==
    \E i \in 0..Len(str) :
        /\ i + Len(sub) <= Len(str)
        /\ SubSeq(str, i + 1, i + Len(sub)) = sub

\* seq[:n]
Take(seq, n) == SubSeq(seq, 1, IF n < Len(seq) THEN n ELSE Len(seq))

----------------------------------------------------------------------------
(* Block builders (src/block_kit_components.py). *)

create_header_block(text) ==
    [type |-> "header",
     text |-> [type |-> "plain_text", text |-> text, emoji |-> TRUE]]

create_section_block(text, accessory) ==
    LET block == [type |-> "section",
                  text |-> [type |-> "mrkdwn", text |-> text]]
    IN  IF TruthyDict(accessory)
        THEN Put(block, "accessory", accessory)
        ELSE block

\* (mutation) value tested with "is not None" instead of its truth value
create_button_block_value_not_none(text, action_id, value, style, url) ==
    LET button == [type |-> "button",
                   text |-> [type |-> "plain_text", text |-> text],
                   action_id |-> action_id]
        b1 == IF value # PyNone THEN Put(button, "value", value) ELSE button
        b2 == IF Truthy(style) THEN Put(b1, "style", style) ELSE b1
        b3 == IF Truthy(url) THEN Put(b2, "url", url) ELSE b2
    IN  b3

create_button_block(text, action_id, value, style, url) ==
    LET button == [type |-> "button",
                   text |-> [type |-> "plain_text", text |-> text],
                   action_id |-> action_id]
        b1 == IF Truthy(value) THEN Put(button, "value", value) ELSE button
        b2 == IF Truthy(style) THEN Put(b1, "style", style) ELSE b1
        b3 == IF Truthy(url) THEN Put(b2, "url", url) ELSE b2
    IN  b3

create_actions_block(buttons) == [type |-> "actions", elements |-> buttons]

create_divider_block == [type |-> "divider"]

create_context_block(elements) == [type |-> "context", elements |-> elements]

create_input_block(block_id, label, element, hint, optional) ==
    LET block == [type |-> "input", block_id |-> block_id,
                  label |-> [type |-> "plain_text", text |-> label],
                  element |-> element]
        b1 == IF Truthy(hint)
              THEN Put(block, "hint", [type |-> "plain_text", text |-> hint])
              ELSE block
        b2 == IF optional THEN Put(b1, "optional", TRUE) ELSE b1
    IN  b2

create_text_input(action_id, placeholder, initial_value, multiline) ==
    LET element == [type |-> "plain_text_input", action_id |-> action_id]
        e1 == IF Truthy(placeholder)
              THEN Put(element, "placeholder",
                       [type |-> "plain_text", text |-> placeholder])
              ELSE element
        e2 == IF Truthy(initial_value)
              THEN Put(e1, "initial_value", initial_value) ELSE e1
        e3 == IF multiline THEN Put(e2, "multiline", TRUE) ELSE e2
    IN  e3

create_select_menu(action_id, options, placeholder) ==
    [type |-> "static_select", action_id |-> action_id,
     placeholder |-> [type |-> "plain_text", text |-> placeholder],
     options |-> [i \in 1..Len(options) |->
                     [text |-> [type |-> "plain_text",
                                text |-> options[i].text],
                      value |-> options[i].value]]]

create_datepicker(action_id, initial_date) ==
    LET element == [type |-> "datepicker", action_id |-> action_id,
                    placeholder |-> [type |-> "plain_text",
                                     text |-> "Select a date"]]
    IN  IF Truthy(initial_date)
        THEN Put(element, "initial_date", initial_date)
        ELSE element

\* (mutation) enumerate(steps) without its start: the label counts from 0
workflow_step_block_from_zero(i, step) ==
    LET status_emoji == IF Get(step, "status", PyNone) = "completed"
                        THEN "[check]" ELSE "[hourglass]"
    IN  create_section_block(<<status_emoji, " *Step ", ToString(i - 1),
                               ":* ", step.name, "\n_",
                               Get(step, "description", ""), "_">>,
                             PyNoneDict)

\* one step of the loop of create_workflow_message
workflow_step_block(i, step) ==
    LET status_emoji == IF Get(step, "status", PyNone) = "completed"
                        THEN "[check]" ELSE "[hourglass]"
    IN  create_section_block(<<status_emoji, " *Step ", ToString(i), ":* ",
                               step.name, "\n_",
                               Get(step, "description", ""), "_">>,
                             PyNoneDict)

create_workflow_message(title, status, description, steps) ==
    << create_header_block(<<"[arrows] ", title>>),
       create_section_block(<<"*Status:* ", status, "\n*Description:* ",
                              description>>, PyNoneDict),
       create_divider_block,
       create_header_block("Workflow Steps") >>
    \o [i \in 1..Len(steps) |-> workflow_step_block(i, steps[i])]

create_task_modal ==
    [type |-> "modal", callback_id |-> "create_task_modal",
     title |-> [type |-> "plain_text", text |-> "Create Task"],
     submit |-> [type |-> "plain_text", text |-> "Create"],
     close |-> [type |-> "plain_text", text |-> "Cancel"],
     blocks |->
       << create_input_block("task_title", "Task Title",
              create_text_input("title_input", "Enter task title",
                                PyNone, FALSE),
              PyNone, FALSE),
          create_input_block("task_description", "Description",
              create_text_input("description_input",
                                "Enter task description", PyNone, TRUE),
              PyNone, TRUE),
          create_input_block("task_priority", "Priority",
              create_select_menu("priority_select",
                  << [text |-> "High", value |-> "high"],
                     [text |-> "Medium", value |-> "medium"],
                     [text |-> "Low", value |-> "low"] >>,
                  "Select priority"),
              PyNone, FALSE),
          create_input_block("task_due_date", "Due Date",
              create_datepicker("due_date_picker", PyNone),
              PyNone, TRUE) >>]

\* (mutation) the Reject button placed ahead of the Approve button
create_approval_message_swapped(requester, request_type, details, request_id) ==
    << create_header_block("Approval Request"),
       create_section_block(<<"*Requester:* ", requester, "\n*Type:* ",
                              request_type, "\n*Details:* ", details>>,
                            PyNoneDict),
       create_divider_block,
       create_actions_block(
           << create_button_block("Reject", "reject_request",
                                  request_id, "danger", PyNone),
              create_button_block("Approve", "approve_request",
                                  request_id, "primary", PyNone),
              create_button_block("View Details", "view_details",
                                  request_id, PyNone, PyNone) >>),
       create_context_block(
           << [type |-> "mrkdwn",
               text |-> <<"Request ID: ", request_id>>] >>) >>

create_approval_message(requester, request_type, details, request_id) ==
    << create_header_block("Approval Request"),
       create_section_block(<<"*Requester:* ", requester, "\n*Type:* ",
                              request_type, "\n*Details:* ", details>>,
                            PyNoneDict),
       create_divider_block,
       create_actions_block(
           << create_button_block("Approve", "approve_request",
                                  request_id, "primary", PyNone),
              create_button_block("Reject", "reject_request",
                                  request_id, "danger", PyNone),
              create_button_block("View Details", "view_details",
                                  request_id, PyNone, PyNone) >>),
       create_context_block(
           << [type |-> "mrkdwn",
               text |-> <<"Request ID: ", request_id>>] >>) >>

create_dashboard_home_tab ==
    [type |-> "home",
     blocks |->
       << create_header_block("Automation Dashboard"),
          create_section_block("Welcome to your automation dashboard! Use the buttons below to manage your workflows.",
                               PyNoneDict),
          create_divider_block,
          create_section_block("*Quick Actions*", PyNoneDict),
          create_actions_block(
              << create_button_block("Create Task", "open_task_modal",
                                     PyNone, PyNone, PyNone),
                 create_button_block("View Workflows", "view_workflows",
                                     PyNone, PyNone, PyNone),
                 create_button_block("View Reports", "view_reports",
                                     PyNone, PyNone, PyNone) >>),
          create_divider_block,
          create_section_block("*Recent Activity*", PyNoneDict),
          create_context_block(
              << [type |-> "mrkdwn", text |-> "No recent activity"] >>) >>]

----------------------------------------------------------------------------
(* Invocations. *)

NoCall == [op |-> "none"]

\* What a thread holds of the invocation it runs: the listener or job
\* (kind), the statement it is at (pc), the payload (body), and its locals:
\* the position its scan stopped at (idx), the id it formatted (rid), the
\* values it has read and not yet used (loc), whether it has acknowledged,
\* and the outbound calls it has made (their number, and the last one).
Idle == [kind |-> "none", pc |-> "idle", body |-> EmptyDict, idx |-> 0,
         rid |-> "", loc |-> EmptyDict, acked |-> FALSE, calls |-> 0,
         out |-> NoCall]

\* the two functions the scheduler runs
JobKinds == {"send_daily_report", "check_pending_tasks"}

\* a statement of some thread writes the store
Disturb == undisturbed' = [t \in Threads |-> FALSE]

\* A free thread starts running a listener or a job at its first statement.
Dispatch(s, kind, pc, body) ==
    /\ inv[s].pc = "idle"
    /\ inv' = [inv EXCEPT ![s] = [Idle EXCEPT !.kind = kind, !.pc = pc,
                                               !.body = body]]
    /\ started' = started + 1
    /\ undisturbed' = [undisturbed EXCEPT ![s] = kind \in JobKinds]
    /\ UNCHANGED last_write

At(s, kind, pc) == inv[s].kind = kind /\ inv[s].pc = pc

Goto(s, pc) == inv' = [inv EXCEPT ![s].pc = pc]

\* a value read into a local of the invocation, which goes on to pc
Read(s, name, value, pc) ==
    inv' = [inv EXCEPT ![s].loc = Put(@, name, value), ![s].pc = pc]

\* ack()
Ack(s, pc) == inv' = [inv EXCEPT ![s].acked = TRUE, ![s].pc = pc]

\* (mutation) no try/except around the call: a failure always propagates
ClientCall_never_caught(s, call, ok, caught) ==
    inv' = [inv EXCEPT ![s].calls = @ + 1,
                       ![s].out = Put(call, "ok", ok),
                       ![s].pc = IF ok THEN "done" ELSE "raised"]

\* One call of the outbound client.  It returns (ok) or raises
\* SlackApiError, which escapes the caller unless a try block catches it.
ClientCall(s, call, ok, caught) ==
    inv' = [inv EXCEPT ![s].calls = @ + 1,
                       ![s].out = Put(call, "ok", ok),
                       ![s].pc = IF ok \/ caught THEN "done" ELSE "raised"]

\* client.chat_postMessage(channel=, blocks=, text=)
chat_postMessage(channel, blocks, text) ==
    [op |-> "chat_postMessage", channel |-> channel, blocks |-> blocks,
     text |-> text]

\* (mutation) the confirmation posted as a new message
chat_update_posted(channel, ts, blocks, text) ==
    [op |-> "chat_postMessage", channel |-> channel, blocks |-> blocks,
     text |-> text]

\* client.chat_update(channel=, ts=, blocks=, text=)
chat_update(channel, ts, blocks, text) ==
    [op |-> "chat_update", channel |-> channel, ts |-> ts,
     blocks |-> blocks, text |-> text]

----------------------------------------------------------------------------
(* The approvals collection. *)

\* (mutation) the scan without its id comparison: the first record is taken
FindApproval_no_id_test(request_id) == IF approvals = <<>> THEN 0 ELSE 1

\* (mutation) the update placed after the loop: without a match the loop
\* variable is left on the last record
FindApproval_loop_variable(request_id) ==
    LET hits == {i \in 1..Len(approvals) : approvals[i]["id"] = request_id}
    IN  IF hits = {} THEN Len(approvals)
        ELSE CHOOSE i \in hits : \A j \in hits : i <= j

\* for approval in automation_store["approvals"]:
\*     if approval["id"] == request_id: ... break
FindApproval(request_id) ==
    LET hits == {i \in 1..Len(approvals) : approvals[i]["id"] = request_id}
    IN  IF hits = {} THEN 0
        ELSE CHOOSE i \in hits : \A j \in hits : i <= j

\* approval[key] = value
SetApprovalField(i, key, value) ==
    approvals' = [approvals EXCEPT ![i] = Put(@, key, value)]

\* f"req_{datetime.now().timestamp()}"
RequestId(t) == "req_" \o ToString(t)
\* an id no approval of this process carries
StaleRequestId == "req_stale"
RequestIds == {RequestId(t) : t \in 0..MaxClock} \cup {StaleRequestId}

ActionBodies(ids, users) ==
    {[actions |-> <<[value |-> r]>>, user |-> [id |-> u],
      channel |-> [id |-> c], message |-> [ts |-> m]] :
        r \in ids, u \in users, c \in Channels, m \in MessageTs}

\* approval["status"] = "approved"
approved_status == "approved"
\* (mutation) a rejection puts the request back in the queue
rejected_status_reopened == "pending"
\* (mutation) handle_reject pasted from handle_approve, the literal kept
rejected_status_pasted == "approved"
\* approval["status"] = "rejected"
rejected_status == "rejected"

----------------------------------------------------------------------------
(* @slack_app.action("approve_request") *)

recv_approve_request(s, body) ==
    /\ Dispatch(s, "approve_request", "ack", body)
    /\ UNCHANGED <<store, now, environ>>

handle_approve_ack(s) ==
    /\ At(s, "approve_request", "ack")
    /\ Ack(s, "find")
    /\ UNCHANGED <<store, now, environ, history>>

handle_approve_find(s) ==
    /\ At(s, "approve_request", "find")
    /\ LET i == FindApproval(inv[s].body.actions[1].value)
       IN  inv' = [inv EXCEPT ![s].idx = i,
                              ![s].pc = IF i = 0 THEN "blocks"
                                        ELSE "w_status"]
    /\ UNCHANGED <<store, now, environ, history>>

handle_approve_status(s) ==
    /\ At(s, "approve_request", "w_status")
    /\ SetApprovalField(inv[s].idx, "status", approved_status)
    /\ last_write' = [last_write EXCEPT ![inv[s].idx] = "approve_request"]
    /\ Goto(s, "w_by")
    /\ Disturb
    /\ UNCHANGED <<tasks, workflows, now, environ, started>>

handle_approve_by(s) ==
    /\ At(s, "approve_request", "w_by")
    /\ SetApprovalField(inv[s].idx, "approved_by", inv[s].body.user.id)
    /\ Goto(s, "r_at")
    /\ Disturb
    /\ UNCHANGED <<tasks, workflows, now, environ, started, last_write>>

\* datetime.now().isoformat(), the value of the assignment that follows
handle_approve_now(s) ==
    /\ At(s, "approve_request", "r_at")
    /\ Read(s, "approved_at", now, "w_at")
    /\ UNCHANGED <<store, now, environ, history>>

\* approval["approved_at"] = the value read
handle_approve_at(s) ==
    /\ At(s, "approve_request", "w_at")
    /\ SetApprovalField(inv[s].idx, "approved_at", inv[s].loc["approved_at"])
    /\ Goto(s, "blocks")
    /\ Disturb
    /\ UNCHANGED <<tasks, workflows, now, environ, started, last_write>>

approve_blocks(request_id, user_id, t) ==
    << create_header_block("Request Approved"),
       create_section_block(<<"Request ", request_id,
                              " has been approved by <@", user_id, ">">>,
                            PyNoneDict),
       create_context_block(
           << [type |-> "mrkdwn", text |-> <<"Approved at: ", t>>] >>) >>

\* blocks = [...]: the confirmation, with the time read for it
handle_approve_blocks(s) ==
    /\ At(s, "approve_request", "blocks")
    /\ Read(s, "blocks", approve_blocks(inv[s].body.actions[1].value,
                                       inv[s].body.user.id, now), "send")
    /\ UNCHANGED <<store, now, environ, history>>

handle_approve_send(s) ==
    /\ At(s, "approve_request", "send")
    /\ \E ok \in BOOLEAN :
         ClientCall(s, chat_update(inv[s].body.channel.id,
                                   inv[s].body.message.ts,
                                   inv[s].loc["blocks"],
                                   "Request approved"),
                    ok, FALSE)
    /\ UNCHANGED <<store, now, environ, history>>

----------------------------------------------------------------------------
(* @slack_app.action("reject_request") *)

recv_reject_request(s, body) ==
    /\ Dispatch(s, "reject_request", "ack", body)
    /\ UNCHANGED <<store, now, environ>>

handle_reject_ack(s) ==
    /\ At(s, "reject_request", "ack")
    /\ Ack(s, "find")
    /\ UNCHANGED <<store, now, environ, history>>

handle_reject_find(s) ==
    /\ At(s, "reject_request", "find")
    /\ LET i == FindApproval(inv[s].body.actions[1].value)
       IN  inv' = [inv EXCEPT ![s].idx = i,
                              ![s].pc = IF i = 0 THEN "blocks"
                                        ELSE "w_status"]
    /\ UNCHANGED <<store, now, environ, history>>

handle_reject_status(s) ==
    /\ At(s, "reject_request", "w_status")
    /\ SetApprovalField(inv[s].idx, "status", rejected_status)
    /\ last_write' = [last_write EXCEPT ![inv[s].idx] = "reject_request"]
    /\ Goto(s, "w_by")
    /\ Disturb
    /\ UNCHANGED <<tasks, workflows, now, environ, started>>

handle_reject_by(s) ==
    /\ At(s, "reject_request", "w_by")
    /\ SetApprovalField(inv[s].idx, "rejected_by", inv[s].body.user.id)
    /\ Goto(s, "r_at")
    /\ Disturb
    /\ UNCHANGED <<tasks, workflows, now, environ, started, last_write>>

\* datetime.now().isoformat(), the value of the assignment that follows
handle_reject_now(s) ==
    /\ At(s, "reject_request", "r_at")
    /\ Read(s, "rejected_at", now, "w_at")
    /\ UNCHANGED <<store, now, environ, history>>

\* approval["rejected_at"] = the value read
handle_reject_at(s) ==
    /\ At(s, "reject_request", "w_at")
    /\ SetApprovalField(inv[s].idx, "rejected_at", inv[s].loc["rejected_at"])
    /\ Goto(s, "blocks")
    /\ Disturb
    /\ UNCHANGED <<tasks, workflows, now, environ, started, last_write>>

reject_blocks(request_id, user_id, t) ==
    << create_header_block("Request Rejected"),
       create_section_block(<<"Request ", request_id,
                              " has been rejected by <@", user_id, ">">>,
                            PyNoneDict),
       create_context_block(
           << [type |-> "mrkdwn", text |-> <<"Rejected at: ", t>>] >>) >>

\* blocks = [...]: the confirmation, with the time read for it
handle_reject_blocks(s) ==
    /\ At(s, "reject_request", "blocks")
    /\ Read(s, "blocks", reject_blocks(inv[s].body.actions[1].value,
                                       inv[s].body.user.id, now), "send")
    /\ UNCHANGED <<store, now, environ, history>>

handle_reject_send(s) ==
    /\ At(s, "reject_request", "send")
    /\ \E ok \in BOOLEAN :
         ClientCall(s, chat_update(inv[s].body.channel.id,
                                   inv[s].body.message.ts,
                                   inv[s].loc["blocks"],
                                   "Request rejected"),
                    ok, FALSE)
    /\ UNCHANGED <<store, now, environ, history>>
----------------------------------------------------------------------------
(* Helper functions: send_workflow_example, send_task_example,            *)
(* send_approval_example.                                                 *)

workflow_steps ==
    << [name |-> "Data Collection",
        description |-> "Collecting data from sources",
        status |-> "completed"],
       [name |-> "Data Processing",
        description |-> "Processing collected data",
        status |-> "completed"],
       [name |-> "Report Generation",
        description |-> "Generating final report",
        status |-> "in_progress"],
       [name |-> "Notification",
        description |-> "Sending notifications",
        status |-> "pending"] >>

\* (mutation) the helper keeps the workflow it reports in the store
send_workflow_example_stored(s, channel) ==
    /\ \E ok \in BOOLEAN :
         ClientCall(s, chat_postMessage(channel,
                           create_workflow_message(
                               "Daily Report Automation", "In Progress",
                               "Automated daily report generation workflow",
                               workflow_steps),
                           "Workflow status"),
                    ok, FALSE)
    /\ workflows' = Append(workflows, [title |-> "Daily Report Automation",
                                        steps |-> workflow_steps])
    /\ Disturb
    /\ UNCHANGED <<tasks, approvals, now, environ, started, last_write>>

send_workflow_example(s, channel) ==
    /\ \E ok \in BOOLEAN :
         ClientCall(s, chat_postMessage(channel,
                           create_workflow_message(
                               "Daily Report Automation", "In Progress",
                               "Automated daily report generation workflow",
                               workflow_steps),
                           "Workflow status"),
                    ok, FALSE)
    /\ UNCHANGED <<store, now, environ, history>>

send_task_example(s, channel) ==
    /\ \E ok \in BOOLEAN :
         ClientCall(s, chat_postMessage(channel,
                           << create_header_block("Task Management"),
                              create_section_block("Click the button below to create a new task using our interactive modal.",
                                                   PyNoneDict),
                              create_actions_block(
                                  << create_button_block("Create Task",
                                         "open_task_modal",
                                         PyNone, PyNone, PyNone) >>) >>,
                           "Task management"),
                    ok, FALSE)
    /\ UNCHANGED <<store, now, environ, history>>

\* request_id = f"req_{datetime.now().timestamp()}"
send_approval_example_id(s) ==
    /\ inv' = [inv EXCEPT ![s].rid = RequestId(now), ![s].pc = "at"]
    /\ UNCHANGED <<store, now, environ, history>>

\* approval = {...}, its created_at from a second reading of the clock
new_approval(request_id, user_id, created_at) ==
    [id |-> request_id, requester |-> user_id, type |-> "Budget Approval",
     details |-> "Requesting approval for Q4 marketing budget",
     status |-> "pending", created_at |-> created_at]

send_approval_example_at(s, user_id) ==
    /\ Read(s, "approval", new_approval(inv[s].rid, user_id, now), "append")
    /\ UNCHANGED <<store, now, environ, history>>

\* automation_store["approvals"].append(approval)
send_approval_example_append(s) ==
    /\ approvals' = Append(approvals, inv[s].loc["approval"])
    /\ Goto(s, "send")
    /\ last_write' = Append(last_write, "none")
    /\ Disturb
    /\ UNCHANGED <<tasks, workflows, now, environ, started>>

\* (mutation) the id formatted anew from the clock when the message is built
send_approval_example_send_new_id(s, channel, user_id) ==
    /\ \E ok \in BOOLEAN :
         ClientCall(s, chat_postMessage(channel,
                           create_approval_message(
                               <<"<@", user_id, ">">>, "Budget Approval",
                               "Requesting approval for Q4 marketing budget",
                               RequestId(now)),
                           "Approval request"),
                    ok, FALSE)
    /\ UNCHANGED <<store, now, environ, history>>

\* blocks = create_approval_message(...); client.chat_postMessage(...)
send_approval_example_send(s, channel, user_id) ==
    /\ \E ok \in BOOLEAN :
         ClientCall(s, chat_postMessage(channel,
                           create_approval_message(
                               <<"<@", user_id, ">">>, "Budget Approval",
                               "Requesting approval for Q4 marketing budget",
                               inv[s].rid),
                           "Approval request"),
                    ok, FALSE)
    /\ UNCHANGED <<store, now, environ, history>>

----------------------------------------------------------------------------
(* @slack_app.event("app_home_opened") *)

HomeEvents(users) == {[user |-> u] : u \in users}

recv_app_home_opened(s, event) ==
    /\ Dispatch(s, "app_home_opened", "publish", event)
    /\ UNCHANGED <<store, now, environ>>

handle_app_home_opened(s) ==
    /\ At(s, "app_home_opened", "publish")
    /\ \E ok \in BOOLEAN :
         ClientCall(s, [op |-> "views_publish",
                        user_id |-> inv[s].body.user,
                        view |-> create_dashboard_home_tab],
                    ok, TRUE)
    /\ UNCHANGED <<store, now, environ, history>>

----------------------------------------------------------------------------
(* @slack_app.event("message") *)

w_hello == <<"h", "e", "l", "l", "o">>
w_hi == <<"h", "i">>
w_workflow == <<"w", "o", "r", "k", "f", "l", "o", "w">>
w_task == <<"t", "a", "s", "k">>
w_approval == <<"a", "p", "p", "r", "o", "v", "a", "l">>

\* (mutation) the approval test moved ahead of the task test
message_branch_approval_first(event) ==
    IF Get(event, "subtype", PyNone) = "bot_message" THEN "ignored"
    ELSE LET text == Lower(Get(event, "text", <<>>))
         IN  IF Contains(w_hello, text) \/ Contains(w_hi, text) THEN "hello"
             ELSE IF Contains(w_workflow, text) THEN "workflow"
             ELSE IF Contains(w_approval, text) THEN "approval"
             ELSE IF Contains(w_task, text) THEN "task"
             ELSE "none"

\* (mutation) the bot-message test dropped
message_branch_bots_answered(event) ==
    LET text == Lower(Get(event, "text", <<>>))
    IN  IF Contains(w_hello, text) \/ Contains(w_hi, text) THEN "hello"
        ELSE IF Contains(w_workflow, text) THEN "workflow"
        ELSE IF Contains(w_task, text) THEN "task"
        ELSE IF Contains(w_approval, text) THEN "approval"
        ELSE "none"

\* The branch handle_message takes: "ignored" for a bot message, then the
\* if/elif chain over the lower-cased text, "none" when nothing matches.
message_branch(event) ==
    IF Get(event, "subtype", PyNone) = "bot_message" THEN "ignored"
    ELSE LET text == Lower(Get(event, "text", <<>>))
         IN  IF Contains(w_hello, text) \/ Contains(w_hi, text) THEN "hello"
             ELSE IF Contains(w_workflow, text) THEN "workflow"
             ELSE IF Contains(w_task, text) THEN "task"
             ELSE IF Contains(w_approval, text) THEN "approval"
             ELSE "none"

\* (mutation) the final elif turned into an else: unmatched text is greeted
message_target_greets(branch) ==
    CASE branch = "workflow" -> "workflow"
      [] branch = "task" -> "task"
      [] branch = "approval" -> "id"
      [] branch = "ignored" -> "done"
      [] OTHER -> "hello"

\* the statement handle_message goes to for a branch: one of its four
\* sends (the approval one after the append), or its end
message_target(branch) ==
    CASE branch = "hello" -> "hello"
      [] branch = "workflow" -> "workflow"
      [] branch = "task" -> "task"
      [] branch = "approval" -> "id"
      [] OTHER -> "done"

recv_message(s, event) ==
    /\ Dispatch(s, "message", "route", event)
    /\ UNCHANGED <<store, now, environ>>

handle_message_route(s) ==
    /\ At(s, "message", "route")
    /\ Goto(s, message_target(message_branch(inv[s].body)))
    /\ UNCHANGED <<store, now, environ, history>>

handle_message_hello(s) ==
    /\ At(s, "message", "hello")
    /\ \E ok \in BOOLEAN :
         ClientCall(s, [op |-> "chat_postMessage",
                        channel |-> inv[s].body.channel,
                        text |-> "Hello! Use /automation to get started with automations."],
                    ok, FALSE)
    /\ UNCHANGED <<store, now, environ, history>>

handle_message_workflow(s) ==
    /\ At(s, "message", "workflow")
    /\ send_workflow_example(s, inv[s].body.channel)

handle_message_task(s) ==
    /\ At(s, "message", "task")
    /\ send_task_example(s, inv[s].body.channel)

handle_message_approval_id(s) ==
    /\ At(s, "message", "id")
    /\ send_approval_example_id(s)

handle_message_approval_at(s) ==
    /\ At(s, "message", "at")
    /\ send_approval_example_at(s, inv[s].body.user)

handle_message_approval_append(s) ==
    /\ At(s, "message", "append")
    /\ send_approval_example_append(s)

handle_message_approval_send(s) ==
    /\ At(s, "message", "send")
    /\ send_approval_example_send(s, inv[s].body.channel, inv[s].body.user)

----------------------------------------------------------------------------
(* @slack_app.command("/automation") *)

CommandBodies(users) ==
    {[user_id |-> u, channel_id |-> c] : u \in users, c \in Channels}

recv_automation_command(s, body) ==
    /\ Dispatch(s, "automation", "ack", body)
    /\ UNCHANGED <<store, now, environ>>

handle_automation_command_ack(s) ==
    /\ At(s, "automation", "ack")
    /\ Ack(s, "send")
    /\ UNCHANGED <<store, now, environ, history>>

handle_automation_command_send(s) ==
    /\ At(s, "automation", "send")
    /\ \E ok \in BOOLEAN :
         ClientCall(s, chat_postMessage(inv[s].body.channel_id,
                           << create_header_block("Automation Commands"),
                              create_section_block("Available automation commands: Workflow, Task, Approval, Schedule",
                                                   PyNoneDict),
                              create_divider_block,
                              create_actions_block(
                                  << create_button_block("View Workflow",
                                         "view_workflow_example",
                                         PyNone, PyNone, PyNone),
                                     create_button_block("Create Task",
                                         "open_task_modal",
                                         PyNone, PyNone, PyNone),
                                     create_button_block("Request Approval",
                                         "request_approval",
                                         PyNone, PyNone, PyNone) >>) >>,
                           "Automation commands"),
                    ok, FALSE)
    /\ UNCHANGED <<store, now, environ, history>>

----------------------------------------------------------------------------
(* @slack_app.action("open_task_modal") *)

TriggerBodies == {[trigger_id |-> t] : t \in Triggers}

recv_open_task_modal(s, body) ==
    /\ Dispatch(s, "open_task_modal", "ack", body)
    /\ UNCHANGED <<store, now, environ>>

handle_open_task_modal_ack(s) ==
    /\ At(s, "open_task_modal", "ack")
    /\ Ack(s, "open")
    /\ UNCHANGED <<store, now, environ, history>>

handle_open_task_modal_open(s) ==
    /\ At(s, "open_task_modal", "open")
    /\ \E ok \in BOOLEAN :
         ClientCall(s, [op |-> "views_open",
                        trigger_id |-> inv[s].body.trigger_id,
                        view |-> create_task_modal],
                    ok, FALSE)
    /\ UNCHANGED <<store, now, environ, history>>

----------------------------------------------------------------------------
(* @slack_app.view("create_task_modal") *)

\* The form state of a submission: the description and due-date blocks are
\* absent, carry null, or carry a value.
FormValues(title, priority, description, due_date) ==
    LET required ==
            [task_title |-> [title_input |-> [value |-> title]],
             task_priority |->
                 [priority_select |-> [selected_option |-> [value |-> priority]]]]
        v1 == IF description = "<absent>" THEN required
              ELSE Put(required, "task_description",
                       [description_input |-> [value |-> description]])
        v2 == IF due_date = "<absent>" THEN v1
              ELSE Put(v1, "task_due_date",
                       [due_date_picker |-> [selected_date |-> due_date]])
    IN  v2

Priorities == {"high", "medium", "low"}

SubmitBodies(users, titles, priorities, descriptions, due_dates) ==
    {[view |-> [state |-> [values |-> FormValues(t, p, d, dd)]],
      user |-> [id |-> u]] :
        u \in users, t \in titles, p \in priorities,
        d \in descriptions, dd \in due_dates}

\* the four values handle_task_modal_submit extracts from the form state
task_title(values) == values["task_title"]["title_input"]["value"]
task_description(values) ==
    Get(Get(Get(values, "task_description", EmptyDict),
            "description_input", EmptyDict), "value", "")
task_priority(values) ==
    values["task_priority"]["priority_select"]["selected_option"]["value"]
\* (mutation) .get("selected_date") without its default
task_due_date_no_default(values) ==
    Get(Get(Get(values, "task_due_date", EmptyDict),
            "due_date_picker", EmptyDict), "selected_date", PyNone)
task_due_date(values) ==
    Get(Get(Get(values, "task_due_date", EmptyDict),
            "due_date_picker", EmptyDict), "selected_date", "")

\* (mutation) the timestamp cut to a coarser unit before it is formatted
TaskId_coarse(t) == "task_" \o ToString(t \div 2)

\* f"task_{datetime.now().timestamp()}"
TaskId(t) == "task_" \o ToString(t)

\* (mutation) a new task is stored as open instead of pending
new_task_open(values, user_id, id, created_at) ==
    [id |-> id,
     title |-> task_title(values),
     description |-> task_description(values),
     priority |-> task_priority(values),
     due_date |-> task_due_date(values),
     created_by |-> user_id,
     created_at |-> created_at,
     status |-> "open"]

\* task = {...}: the id from the first reading of the clock, created_at
\* from the second
new_task(values, user_id, id, created_at) ==
    [id |-> id,
     title |-> task_title(values),
     description |-> task_description(values),
     priority |-> task_priority(values),
     due_date |-> task_due_date(values),
     created_by |-> user_id,
     created_at |-> created_at,
     status |-> "pending"]

\* f"{task_due_date if task_due_date else 'Not set'}"
due_date_shown(due_date) == IF Truthy(due_date) THEN due_date ELSE "Not set"

task_created_blocks(values) ==
    << create_header_block("Task Created"),
       create_section_block(<<"*Title:* ", task_title(values),
                              "\n*Priority:* ", task_priority(values),
                              "\n*Due Date:* ",
                              due_date_shown(task_due_date(values)),
                              "\n*Status:* Pending">>,
                            PyNoneDict) >>

\* (mutation) insert(0, task) in place of append(task)
tasks_insert_first(task) == <<task>> \o tasks

\* automation_store["tasks"].append(task)
tasks_append(task) == Append(tasks, task)

recv_create_task_modal(s, body) ==
    /\ Dispatch(s, "create_task_modal", "ack", body)
    /\ UNCHANGED <<store, now, environ>>

handle_task_modal_submit_ack(s) ==
    /\ At(s, "create_task_modal", "ack")
    /\ Ack(s, "id")
    /\ UNCHANGED <<store, now, environ, history>>

\* f"task_{datetime.now().timestamp()}", the first value of the dict
handle_task_modal_submit_id(s) ==
    /\ At(s, "create_task_modal", "id")
    /\ inv' = [inv EXCEPT ![s].rid = TaskId(now), ![s].pc = "at"]
    /\ UNCHANGED <<store, now, environ, history>>

\* datetime.now().isoformat(): the dict is complete
handle_task_modal_submit_at(s) ==
    /\ At(s, "create_task_modal", "at")
    /\ Read(s, "task", new_task(inv[s].body.view.state.values,
                                inv[s].body.user.id, inv[s].rid, now),
            "append")
    /\ UNCHANGED <<store, now, environ, history>>

handle_task_modal_submit_append(s) ==
    /\ At(s, "create_task_modal", "append")
    /\ tasks' = tasks_append(inv[s].loc["task"])
    /\ Goto(s, "send")
    /\ Disturb
    /\ UNCHANGED <<workflows, approvals, now, environ, started, last_write>>

handle_task_modal_submit_send(s) ==
    /\ At(s, "create_task_modal", "send")
    /\ \E ok \in BOOLEAN :
         ClientCall(s, chat_postMessage(inv[s].body.user.id,
                           task_created_blocks(inv[s].body.view.state.values),
                           <<"Task created: ",
                             task_title(inv[s].body.view.state.values)>>),
                    ok, FALSE)
    /\ UNCHANGED <<store, now, environ, history>>

----------------------------------------------------------------------------
(* @slack_app.action("view_workflow_example") *)

ChannelBodies(users) ==
    {[user |-> [id |-> u], channel |-> [id |-> c]] :
        u \in users, c \in Channels}

recv_view_workflow_example(s, body) ==
    /\ Dispatch(s, "view_workflow_example", "ack", body)
    /\ UNCHANGED <<store, now, environ>>

handle_view_workflow_ack(s) ==
    /\ At(s, "view_workflow_example", "ack")
    /\ Ack(s, "send")
    /\ UNCHANGED <<store, now, environ, history>>

handle_view_workflow_send(s) ==
    /\ At(s, "view_workflow_example", "send")
    /\ send_workflow_example(s, inv[s].body.channel.id)

----------------------------------------------------------------------------
(* @slack_app.action("request_approval") *)

recv_request_approval(s, body) ==
    /\ Dispatch(s, "request_approval", "ack", body)
    /\ UNCHANGED <<store, now, environ>>

handle_request_approval_ack(s) ==
    /\ At(s, "request_approval", "ack")
    /\ Ack(s, "id")
    /\ UNCHANGED <<store, now, environ, history>>

handle_request_approval_id(s) ==
    /\ At(s, "request_approval", "id")
    /\ send_approval_example_id(s)

handle_request_approval_at(s) ==
    /\ At(s, "request_approval", "at")
    /\ send_approval_example_at(s, inv[s].body.user.id)

handle_request_approval_append(s) ==
    /\ At(s, "request_approval", "append")
    /\ send_approval_example_append(s)

handle_request_approval_send(s) ==
    /\ At(s, "request_approval", "send")
    /\ send_approval_example_send(s, inv[s].body.channel.id,
                                  inv[s].body.user.id)

----------------------------------------------------------------------------
(* Scheduled jobs. *)

\* os.getenv(key, default)
getenv(key, default) == Get(environ, key, default)

\* os.getenv("SLACK_CHANNEL_ID", "#general")
default_channel == getenv("SLACK_CHANNEL_ID", "#general")

\* (mutation) the status filter dropped: every approval is counted
is_pending_unfiltered(a) == TRUE

\* a["status"] == "pending", the filter of the comprehension of the report
is_pending(a) == a["status"] = "pending"

\* blocks = [...] of the report, from the values the job has read
daily_report_blocks(date, n_tasks, n_pending, n_workflows) ==
    << create_header_block("Daily Automation Report"),
       create_section_block(<<"*Date:* ", ToString(date),
                              "\n*Total Tasks:* ", ToString(n_tasks),
                              "\n*Pending Approvals:* ", ToString(n_pending),
                              "\n*Active Workflows:* ",
                              ToString(n_workflows)>>,
                            PyNoneDict),
       create_divider_block,
       create_section_block("*Summary* All systems are running smoothly!",
                            PyNoneDict) >>

run_send_daily_report(s) ==
    /\ Dispatch(s, "send_daily_report", "run", EmptyDict)
    /\ UNCHANGED <<store, now, environ>>

\* channel_id = os.getenv(...); datetime.now().strftime("%Y-%m-%d")
send_daily_report_date(s) ==
    /\ At(s, "send_daily_report", "run")
    /\ inv' = [inv EXCEPT ![s].loc = [channel_id |-> default_channel,
                                      date |-> now],
                          ![s].pc = "tasks"]
    /\ UNCHANGED <<store, now, environ, history>>

\* len(automation_store["tasks"]); the comprehension over the approvals
\* starts at the first position with nothing counted
send_daily_report_tasks(s) ==
    /\ At(s, "send_daily_report", "tasks")
    /\ inv' = [inv EXCEPT ![s].loc = Put(Put(Put(@, "n_tasks", Len(tasks)),
                                              "i", 0), "n_pending", 0),
                          ![s].pc = "scan"]
    /\ UNCHANGED <<store, now, environ, history>>

\* One round of [a for a in automation_store["approvals"] if ...]: the
\* iterator hands out the next approval of the list as it is now and the
\* filter reads its status, or the list has no further element and the
\* comprehension ends.
send_daily_report_scan(s) ==
    /\ At(s, "send_daily_report", "scan")
    /\ LET i == inv[s].loc["i"]
       IN  IF i < Len(approvals)
           THEN inv' = [inv EXCEPT
                    ![s].loc = Put(Put(@, "i", i + 1), "n_pending",
                                   IF is_pending(approvals[i + 1])
                                   THEN @["n_pending"] + 1
                                   ELSE @["n_pending"])]
           ELSE Goto(s, "workflows")
    /\ UNCHANGED <<store, now, environ, history>>

\* len(automation_store["workflows"]); blocks = [...]
send_daily_report_workflows(s) ==
    /\ At(s, "send_daily_report", "workflows")
    /\ Read(s, "blocks",
            daily_report_blocks(inv[s].loc["date"], inv[s].loc["n_tasks"],
                                inv[s].loc["n_pending"], Len(workflows)),
            "send")
    /\ UNCHANGED <<store, now, environ, history>>

\* (mutation) the report starts the day over: the reported tasks are dropped
send_daily_report_resets(s) ==
    /\ At(s, "send_daily_report", "send")
    /\ \E ok \in BOOLEAN :
         ClientCall(s, chat_postMessage(inv[s].loc["channel_id"],
                                        inv[s].loc["blocks"],
                                        "Daily automation report"),
                    ok, TRUE)
    /\ tasks' = <<>>
    /\ Disturb
    /\ UNCHANGED <<workflows, approvals, now, environ, started, last_write>>

\* slack_client.chat_postMessage(...) inside the try block
send_daily_report(s) ==
    /\ At(s, "send_daily_report", "send")
    /\ \E ok \in BOOLEAN :
         ClientCall(s, chat_postMessage(inv[s].loc["channel_id"],
                                        inv[s].loc["blocks"],
                                        "Daily automation report"),
                    ok, TRUE)
    /\ UNCHANGED <<store, now, environ, history>>

\* (mutation) the status filter inverted
pending_tasks_not_pending ==
    SelectSeq(tasks, LAMBDA t : t["status"] # "pending")

\* [t for t in automation_store["tasks"] if t["status"] == "pending"]
pending_tasks == SelectSeq(tasks, LAMBDA t : t["status"] = "pending")

\* pending_tasks[:5]
ReminderListLimit == 5

\* "\n".join([...]): the tuple of the joined lines
task_list(pending) ==
    [i \in 1..Len(Take(pending, ReminderListLimit)) |->
        <<"- ", pending[i]["title"], " (Priority: ",
          pending[i]["priority"], ")">>]

\* (mutation) the count taken from the truncated list
reminder_blocks_listed_count(pending) ==
    << create_header_block("Pending Tasks Reminder"),
       create_section_block(<<"You have ",
                              ToString(Len(Take(pending, ReminderListLimit))),
                              " pending task(s):\n\n", task_list(pending)>>,
                            PyNoneDict),
       create_actions_block(
           << create_button_block("View All Tasks", "view_tasks",
                                  PyNone, PyNone, PyNone) >>) >>

reminder_blocks(pending) ==
    << create_header_block("Pending Tasks Reminder"),
       create_section_block(<<"You have ", ToString(Len(pending)),
                              " pending task(s):\n\n", task_list(pending)>>,
                            PyNoneDict),
       create_actions_block(
           << create_button_block("View All Tasks", "view_tasks",
                                  PyNone, PyNone, PyNone) >>) >>

run_check_pending_tasks(s) ==
    /\ Dispatch(s, "check_pending_tasks", "run", EmptyDict)
    /\ UNCHANGED <<store, now, environ>>

\* pending_tasks = [...]; if pending_tasks:
\* (No statement changes or removes a stored task, so the comprehension
\* yields the pending tasks of the list as it is when its iterator ends:
\* the step is taken at that moment.)
check_pending_tasks_scan(s) ==
    /\ At(s, "check_pending_tasks", "run")
    /\ IF pending_tasks # <<>>
       THEN Read(s, "pending_tasks", pending_tasks, "send")
       ELSE Goto(s, "done")
    /\ UNCHANGED <<store, now, environ, history>>

\* channel_id = os.getenv(...); blocks = [...];
\* slack_client.chat_postMessage(...) inside the try block
check_pending_tasks(s) ==
    /\ At(s, "check_pending_tasks", "send")
    /\ \E ok \in BOOLEAN :
         ClientCall(s, chat_postMessage(default_channel,
                           reminder_blocks(inv[s].loc["pending_tasks"]),
                           "Pending tasks reminder"),
                    ok, TRUE)
    /\ UNCHANGED <<store, now, environ, history>>

----------------------------------------------------------------------------
(* The environment: the wall clock advances; a thread whose invocation    *)
(* has returned or raised goes back to the pool.                          *)

Tick ==
    /\ now < MaxClock
    /\ now' = now + 1
    /\ UNCHANGED <<store, inv, environ, history>>

Return(s) ==
    /\ inv[s].pc \in {"done", "raised"}
    /\ inv' = [inv EXCEPT ![s] = Idle]
    /\ undisturbed' = [undisturbed EXCEPT ![s] = FALSE]
    /\ UNCHANGED <<store, now, environ, started, last_write>>

\* the environment the process is started with: SLACK_CHANNEL_ID unset or
\* set to a channel
Environments == {EmptyDict, [SLACK_CHANNEL_ID |-> "C0OPS"]}

Init ==
    /\ tasks = <<>>
    /\ workflows = <<>>
    /\ approvals = <<>>
    /\ now = 0
    /\ inv = [s \in Threads |-> Idle]
    /\ environ \in Environments
    /\ started = 0
    /\ last_write = <<>>
    /\ undisturbed = [s \in Threads |-> FALSE]

----------------------------------------------------------------------------
(* Inputs. *)

Requesters == {"U1"}
Deciders == {"U2"}

\* message texts, as the tuples of their characters
SampleTexts ==
    { <<"H", "e", "l", "l", "o">>,
      <<"t", "h", "i", "s">>,
      <<"H", "<U+0130>">>,
      <<"W", "O", "R", "K", "F", "L", "O", "W">>,
      <<"t", "a", "s", "k", " ", "w", "o", "r", "k", "f", "l", "o", "w">>,
      <<"T", "A", "S", "<U+212A>">>,
      <<"a", "p", "p", "r", "o", "v", "a", "l", " ", "t", "a", "s", "k">>,
      <<"A", "p", "p", "r", "o", "v", "a", "l">>,
      <<"a", "p", "p", "r", "o", "v", "a">>,
      <<"h", "i">>,
      <<"t", "a", "s", "k">>,
      <<"a", "p", "p", "r", "o", "v", "a", "l">>,
      <<"w", "o", "r", "k", "f", "l", "o", "w", " ",
        "a", "p", "p", "r", "o", "v", "a", "l">>,
      <<"t", "h", "i", "s", " ", "a", "p", "p", "r", "o", "v", "a", "l">>,
      <<"<U+00C0>", "p", "p", "r", "o", "v", "a", "l">>,
      <<"<U+03A3>", "A", "<U+03A3>">>,
      <<"x", "y", "z">>,
      <<>> }

\* the texts that also come with a subtype
SubtypedTexts ==
    { <<"A", "p", "p", "r", "o", "v", "a", "l">>,
      <<"a", "p", "p", "r", "o", "v", "a">> }

\* the texts the router is given next to the other listeners
RouterTexts ==
    { <<"H", "e", "l", "l", "o">>,
      <<"W", "O", "R", "K", "F", "L", "O", "W">>,
      <<"t", "a", "s", "k">>,
      <<"A", "p", "p", "r", "o", "v", "a", "l">> }

\* message events: with no text, with each of the texts, and with each of
\* the subtyped texts under each subtype
MessageEvents(users, texts, subtyped, subtypes) ==
    LET base == {[channel |-> c, user |-> u] : c \in Channels, u \in users}
    IN  base
        \cup {Put(e, "text", t) : e \in base, t \in texts}
        \cup {Put(Put(e, "text", t), "subtype", st) :
                 e \in base, t \in subtyped, st \in subtypes}

\* submissions of the task modal: each required and optional field takes
\* each of its shapes in some row
SampleSubmissions ==
    SubmitBodies({"U1"}, {"Ship report"}, {"high"}, {"<absent>"}, {"<absent>"})
    \cup SubmitBodies({"U2"}, {"Fix bug"}, {"low"}, {PyNone}, {PyNone})
    \cup SubmitBodies({"U1"}, {"Fix bug"}, {"medium"}, {"details"},
                      {"2026-01-31"})
    \cup SubmitBodies({"U2"}, {"Ship report"}, {"medium"}, {"<absent>"},
                      {"2026-01-31"})
    \cup SubmitBodies({"U2"}, {"Ship report"}, {"low"}, {"details"},
                      {"<absent>"})
    \cup SubmitBodies({"U1"}, {"Fix bug"}, {"high"}, {""}, {""})

JobSubmissions ==
    SubmitBodies({"U1"}, {"Ship report"}, {"high"}, {"<absent>"}, {"<absent>"})

\* two submissions that differ in title and priority
RouterSubmissions ==
    SubmitBodies({"U1"}, {"Ship report"}, {"high"}, {"<absent>"}, {"<absent>"})
    \cup SubmitBodies({"U1"}, {"Fix bug"}, {"low"}, {"<absent>"}, {"<absent>"})

\* the submission that brings the n-th task of the reminder: the tasks are
\* told apart by their titles, and their priorities go in turn
ReminderTitles == <<"Task 1", "Task 2", "Task 3", "Task 4", "Task 5",
                    "Task 6", "Task 7", "Task 8">>
ReminderPriorities == <<"high", "medium", "low">>
ReminderSubmissions(n) ==
    SubmitBodies({"U1"}, {ReminderTitles[n]},
                 {ReminderPriorities[(n % 3) + 1]}, {"<absent>"}, {"<absent>"})

\* the payloads each specification dispatches
RequestBodies == ChannelBodies(Requesters)
DecisionBodies == ActionBodies(RequestIds, Deciders)
RouterDecisionBodies ==
    ActionBodies({RequestId(0), StaleRequestId}, Deciders)
RouterHomeEvents == HomeEvents(Requesters)
RouterMessageEvents ==
    MessageEvents(Requesters, RouterTexts,
                  {<<"A", "p", "p", "r", "o", "v", "a", "l">>},
                  {"bot_message"})
ListenerMessageEvents ==
    MessageEvents(Requesters, SampleTexts, SubtypedTexts,
                  {"bot_message", "channel_join"})
RouterCommandBodies == CommandBodies(Requesters)
\* the message events that will append an approval, and the others
ApprovalMessageEvents ==
    {e \in RouterMessageEvents : message_branch(e) = "approval"}
OtherMessageEvents == RouterMessageEvents \ ApprovalMessageEvents

\* An invocation in flight has an append to a collection ahead of it: a
\* listener of one of the kinds that is on its way to its append, the
\* message listener only when its text takes it there.
WillAppend(s, kinds) ==
    /\ inv[s].kind \in kinds
    /\ \/ inv[s].pc \in {"ack", "id", "at", "append"}
       \/ /\ inv[s].pc = "route"
          /\ message_target(message_branch(inv[s].body)) = "id"
Appending(kinds) == Cardinality({s \in Threads : WillAppend(s, kinds)})

\* room for one more approval / task, counting the appends under way
RoomForApproval ==
    Len(approvals) + Appending({"request_approval", "message"}) < MaxApprovals
RoomForTask(max) == Len(tasks) + Appending({"create_task_modal"}) < max

\* APScheduler starts a job only while no run of it is under way
\* (max_instances is left at 1 by both add_job calls)
NotRunning(kind) == \A s \in Threads : inv[s].kind # kind

----------------------------------------------------------------------------
(* The approval life cycle on two threads. *)

ApprovalSteps(s) ==
    \/ handle_request_approval_ack(s)
    \/ handle_request_approval_id(s)
    \/ handle_request_approval_at(s)
    \/ handle_request_approval_append(s)
    \/ handle_request_approval_send(s)
    \/ handle_approve_ack(s)
    \/ handle_approve_find(s)
    \/ handle_approve_status(s)
    \/ handle_approve_by(s)
    \/ handle_approve_now(s)
    \/ handle_approve_at(s)
    \/ handle_approve_blocks(s)
    \/ handle_approve_send(s)
    \/ handle_reject_ack(s)
    \/ handle_reject_find(s)
    \/ handle_reject_status(s)
    \/ handle_reject_by(s)
    \/ handle_reject_now(s)
    \/ handle_reject_at(s)
    \/ handle_reject_blocks(s)
    \/ handle_reject_send(s)

Next ==
    \/ Tick
    \/ \E s \in Threads :
        \/ Return(s)
        \/ ApprovalSteps(s)
        \/ /\ started < MaxInvocations
           /\ \/ /\ RoomForApproval
                 /\ \E b \in RequestBodies :
                        recv_request_approval(s, b)
              \/ \E b \in DecisionBodies : recv_approve_request(s, b)
              \/ \E b \in DecisionBodies : recv_reject_request(s, b)

Spec == Init /\ [][Next]_vars

----------------------------------------------------------------------------
(* The whole event router and both jobs, on two threads. *)

RouterSteps(s) ==
    \/ ApprovalSteps(s)
    \/ handle_app_home_opened(s)
    \/ handle_message_route(s)
    \/ handle_message_hello(s)
    \/ handle_message_workflow(s)
    \/ handle_message_task(s)
    \/ handle_message_approval_id(s)
    \/ handle_message_approval_at(s)
    \/ handle_message_approval_append(s)
    \/ handle_message_approval_send(s)
    \/ handle_automation_command_ack(s)
    \/ handle_automation_command_send(s)
    \/ handle_open_task_modal_ack(s)
    \/ handle_open_task_modal_open(s)
    \/ handle_task_modal_submit_ack(s)
    \/ handle_task_modal_submit_id(s)
    \/ handle_task_modal_submit_at(s)
    \/ handle_task_modal_submit_append(s)
    \/ handle_task_modal_submit_send(s)
    \/ handle_view_workflow_ack(s)
    \/ handle_view_workflow_send(s)
    \/ send_daily_report_date(s)
    \/ send_daily_report_tasks(s)
    \/ send_daily_report_scan(s)
    \/ send_daily_report_workflows(s)
    \/ send_daily_report(s)
    \/ check_pending_tasks_scan(s)
    \/ check_pending_tasks(s)

RouterDispatch(s) ==
    \/ \E e \in RouterHomeEvents : recv_app_home_opened(s, e)
    \/ \E e \in OtherMessageEvents : recv_message(s, e)
    \/ /\ RoomForApproval
       /\ \E e \in ApprovalMessageEvents : recv_message(s, e)
    \/ \E b \in RouterCommandBodies : recv_automation_command(s, b)
    \/ \E b \in TriggerBodies : recv_open_task_modal(s, b)
    \/ /\ RoomForTask(MaxTasks)
       /\ \E b \in RouterSubmissions : recv_create_task_modal(s, b)
    \/ \E b \in RequestBodies : recv_view_workflow_example(s, b)
    \/ /\ RoomForApproval
       /\ \E b \in RequestBodies : recv_request_approval(s, b)
    \/ \E b \in RouterDecisionBodies : recv_approve_request(s, b)
    \/ \E b \in RouterDecisionBodies : recv_reject_request(s, b)
    \/ NotRunning("send_daily_report") /\ run_send_daily_report(s)
    \/ NotRunning("check_pending_tasks") /\ run_check_pending_tasks(s)

RouterNext ==
    \/ Tick
    \/ \E s \in Threads :
        \/ Return(s)
        \/ RouterSteps(s)
        \/ started < MaxRouted /\ RouterDispatch(s)

SpecRouter == Init /\ [][RouterNext]_vars

----------------------------------------------------------------------------
(* Task creation and the hourly reminder, up to MaxPending tasks. *)

\* the submissions dispatched so far: their tasks are stored or on the way
SubmissionsStarted == Len(tasks) + Appending({"create_task_modal"})

ReminderNext ==
    \/ Tick
    \/ \E s \in Threads :
        \/ Return(s)
        \/ handle_task_modal_submit_ack(s)
        \/ handle_task_modal_submit_id(s)
        \/ handle_task_modal_submit_at(s)
        \/ handle_task_modal_submit_append(s)
        \/ handle_task_modal_submit_send(s)
        \/ check_pending_tasks_scan(s)
        \/ check_pending_tasks(s)
        \/ /\ RoomForTask(MaxPending)
           /\ \E b \in ReminderSubmissions(SubmissionsStarted + 1) :
                  recv_create_task_modal(s, b)
        \/ /\ started - SubmissionsStarted < MaxReminders
           /\ NotRunning("check_pending_tasks")
           /\ run_check_pending_tasks(s)

SpecReminder == Init /\ [][ReminderNext]_vars

----------------------------------------------------------------------------
(* The message listener alone, over every sample text, on two threads. *)

ListenerApprovalEvents ==
    {e \in ListenerMessageEvents : message_branch(e) = "approval"}
ListenerOtherEvents == ListenerMessageEvents \ ListenerApprovalEvents

MessageSteps(s) ==
    \/ handle_message_route(s)
    \/ handle_message_hello(s)
    \/ handle_message_workflow(s)
    \/ handle_message_task(s)
    \/ handle_message_approval_id(s)
    \/ handle_message_approval_at(s)
    \/ handle_message_approval_append(s)
    \/ handle_message_approval_send(s)

MessagesNext ==
    \/ Tick
    \/ \E s \in Threads :
        \/ Return(s)
        \/ MessageSteps(s)
        \/ /\ started < MaxMessages
           /\ \/ \E e \in ListenerOtherEvents : recv_message(s, e)
              \/ /\ RoomForApproval
                 /\ \E e \in ListenerApprovalEvents : recv_message(s, e)

SpecMessages == Init /\ [][MessagesNext]_vars

----------------------------------------------------------------------------
(* The task modal alone, over every shape of submission, on two threads. *)

SubmissionSteps(s) ==
    \/ handle_task_modal_submit_ack(s)
    \/ handle_task_modal_submit_id(s)
    \/ handle_task_modal_submit_at(s)
    \/ handle_task_modal_submit_append(s)
    \/ handle_task_modal_submit_send(s)

SubmissionsNext ==
    \/ Tick
    \/ \E s \in Threads :
        \/ Return(s)
        \/ SubmissionSteps(s)
        \/ /\ RoomForTask(MaxTasks)
           /\ \E b \in SampleSubmissions : recv_create_task_modal(s, b)

SpecSubmissions == Init /\ [][SubmissionsNext]_vars
----------------------------------------------------------------------------
(* Properties of the approval life cycle. *)

DecisionKinds == {"approve_request", "reject_request"}
DecisionWrites == {"w_status", "w_by", "w_at"}
CreationFields == {"id", "requester", "type", "details", "created_at"}

\* thread s takes the step, and the step is one of the three assignments
\* of an approve/reject listener to the record its scan stopped at
DecisionWriteBy(s, i) ==
    /\ inv[s].kind \in DecisionKinds
    /\ inv[s].pc \in DecisionWrites
    /\ inv'[s].pc # inv[s].pc
    /\ inv[s].idx = i

\* C1 as stated: an Approval is mutated only by its transition out of
\* pending; once its status is approved or rejected no approve_request or
\* reject_request changes its status or any field already set.  (The two
\* assignments that complete a listener's own update are not counted as a
\* second mutation.)
C1_MutatedOnce ==
    [][\A i \in 1..Len(approvals) :
          approvals[i]["status"] # "pending" =>
              \A k \in DOMAIN approvals[i] :
                  approvals'[i][k] = approvals[i][k]]_vars

\* C1 amended: an Approval is changed only by an approve_request or
\* reject_request listener whose carried value is the record's id; every
\* such change leaves id, requester, type, details and created_at as they
\* were and leaves the status approved or rejected, never pending again.
\* A listener that arrives after the record is decided is not ignored: it
\* overwrites the status and sets its own actor and time fields.
C1_MutatedOnlyByItsDecisions ==
    [][\A i \in 1..Len(approvals) :
          approvals'[i] # approvals[i] =>
              /\ \E s \in Threads :
                    /\ DecisionWriteBy(s, i)
                    /\ inv[s].body.actions[1].value = approvals[i]["id"]
              /\ approvals'[i]["status"] \in {"approved", "rejected"}
              /\ \A k \in CreationFields :
                    approvals'[i][k] = approvals[i][k]]_vars

\* an Approval that an approve and a reject listener have both written to
C1_DecidedTwice ==
    \E i \in 1..Len(approvals) :
        {"approved_by", "rejected_by"} \subseteq DOMAIN approvals[i]

\* the find-and-update of thread s is over and it stopped at record i
UpdatedBy(s, kind, i) ==
    /\ inv[s].kind = kind
    /\ inv[s].idx = i
    /\ inv[s].pc \in {"blocks", "send", "done", "raised"}

StatusWrittenBy(kind) ==
    IF kind = "approve_request" THEN "approved" ELSE "rejected"

\* C2: when an approve and a reject listener have both run their
\* find-and-update on the same existing Approval, in any interleaving of
\* their statements, neither has raised out of the update (a listener ends
\* raised only when its message update failed to deliver), the record has
\* one status, approved or rejected, and it is the status of the listener
\* whose status assignment ran last.
C2_LastWriteWins ==
    \A i \in 1..Len(approvals) : \A sa, sr \in Threads :
        (UpdatedBy(sa, "approve_request", i) /\ UpdatedBy(sr, "reject_request", i))
        => /\ approvals[i]["status"] \in {"approved", "rejected"}
           /\ last_write[i] \in DecisionKinds
           /\ approvals[i]["status"] = StatusWrittenBy(last_write[i])
           /\ \A s \in {sa, sr} :
                 inv[s].pc = "raised" => inv[s].out["ok"] = FALSE

\* both listeners have returned after updating the same Approval, which
\* carries the fields of both and is left rejected
C2_RaceOver ==
    \E i \in 1..Len(approvals) : \E sa, sr \in Threads :
        /\ UpdatedBy(sa, "approve_request", i)
        /\ UpdatedBy(sr, "reject_request", i)
        /\ inv[sa].pc = "done" /\ inv[sr].pc = "done"
        /\ approvals[i]["status"] = "rejected"
        /\ {"approved_at", "rejected_at"} \subseteq DOMAIN approvals[i]

----------------------------------------------------------------------------
(* Properties of the event router. *)

ListenerKinds ==
    {"app_home_opened", "message", "automation", "open_task_modal",
     "create_task_modal", "view_workflow_example", "request_approval",
     "approve_request", "reject_request"}

\* the collection after the step is the collection before it, or that with
\* one element added at its end
GrowsAtEnd(before, after) ==
    /\ Len(after) \in {Len(before), Len(before) + 1}
    /\ SubSeq(after, 1, Len(before)) = before

\* C3: in every step of every listener and job the three collections are
\* append-only: nothing is removed or reordered, a new element goes to the
\* end, no stored Task changes, and a stored Approval changes only in a
\* step of an approve_request or reject_request listener, which keeps it
\* in its place.
C3_AppendOnly ==
    [][/\ GrowsAtEnd(tasks, tasks')
       /\ GrowsAtEnd(workflows, workflows')
       /\ Len(approvals') \in {Len(approvals), Len(approvals) + 1}
       /\ \A i \in 1..Len(approvals) :
             approvals'[i] # approvals[i] =>
                 /\ \E s \in Threads : /\ inv[s].kind \in DecisionKinds
                                       /\ inv'[s] # inv[s]
                 /\ approvals'[i]["id"] = approvals[i]["id"]
                 /\ approvals'[i]["created_at"] = approvals[i]["created_at"]
      ]_vars

\* a second task has gone behind the first, and an approval has been decided
\* in a store that also holds a task
C3_StoreGrown ==
    \/ Len(tasks) >= 2 /\ tasks[1] # tasks[2]
    \/ /\ Len(tasks) >= 1
       /\ \E i \in 1..Len(approvals) : approvals[i]["status"] # "pending"

\* thread s takes the step, and the step changes the store or calls the
\* outbound client
ActsOutside(s) ==
    /\ inv'[s] # inv[s]
    /\ \/ store' # store
       \/ inv'[s].calls > inv[s].calls

\* C4: in every listener invocation the acknowledgement comes before any
\* store mutation and any outbound call of that invocation: a listener
\* that changes the store or calls the client has acknowledged, the
\* message listener that appends an Approval included.
C4_AckFirst ==
    [][\A s \in Threads :
          (inv[s].kind \in ListenerKinds /\ ActsOutside(s)) => inv[s].acked
      ]_vars

Finished(s) == inv[s].pc \in {"done", "raised"}

\* C5 as stated: every listener invocation makes exactly one outbound call.
C5_ExactlyOneCall ==
    \A s \in Threads :
        (inv[s].kind \in ListenerKinds /\ Finished(s)) => inv[s].calls = 1

\* whether any of the five keywords occurs in the lower-cased text
MentionsKeyword(event) ==
    \E w \in {w_hello, w_hi, w_workflow, w_task, w_approval} :
        Contains(w, Lower(Get(event, "text", <<>>)))

\* a message event the listener passes over: a bot message, or a text with
\* none of the keywords
PassedOver(event) ==
    \/ Get(event, "subtype", PyNone) = "bot_message"
    \/ ~MentionsKeyword(event)

\* C5 amended: every listener invocation makes at most one outbound call,
\* and exactly one by the time it ends, except an invocation of the
\* message listener for a bot message or for a text with none of the
\* keywords, which makes none.
C5_OneCallUnlessPassedOver ==
    \A s \in Threads :
        inv[s].kind \in ListenerKinds =>
            /\ inv[s].calls <= 1
            /\ Finished(s) =>
                  inv[s].calls =
                      IF inv[s].kind = "message" /\ PassedOver(inv[s].body)
                      THEN 0 ELSE 1

\* a reject_request invocation that has ended with its one call, an update
C5_RejectDone ==
    \E s \in Threads :
        /\ inv[s].kind = "reject_request"
        /\ inv[s].pc = "done"
        /\ inv[s].calls = 1
        /\ inv[s].out["op"] = "chat_update"

----------------------------------------------------------------------------
(* Properties of the message listener. *)

\* the keywords in their order of precedence
KeywordRanks == << {w_hello, w_hi}, {w_workflow}, {w_task}, {w_approval} >>
RankStatements == <<"hello", "workflow", "task", "id">>
RankCallTexts ==
    << "Hello! Use /automation to get started with automations.",
       "Workflow status", "Task management", "Approval request" >>

LoweredText(event) == Lower(Get(event, "text", <<>>))
RankMatches(r, text) == \E w \in KeywordRanks[r] : Contains(w, text)

\* the first rank with a keyword in the text, 0 when none has
FirstMatch(event) ==
    LET text == LoweredText(event)
        ranks == {r \in 1..4 : RankMatches(r, text)}
    IN  IF ranks = {} THEN 0
        ELSE CHOOSE r \in ranks : \A q \in ranks : r <= q

\* "approval" occurs in the text and none of "hello", "hi", "workflow",
\* "task" does
OnlyApprovalMatches(event) ==
    LET text == LoweredText(event)
    IN  /\ Contains(w_approval, text)
        /\ \A w \in {w_hello, w_hi, w_workflow, w_task} : ~Contains(w, text)

NotFromBot(event) == Get(event, "subtype", PyNone) # "bot_message"

\* C6: for every non-bot message event handle_message takes exactly the
\* first matching branch of the precedence hello/hi > workflow > task >
\* approval over the lower-cased text, and makes that branch's call; it
\* appends a new pending Approval (and then sends the approval message
\* carrying its id) if and only if the text contains "approval" and none
\* of "hello", "hi", "workflow", "task"; in every other branch the store
\* is unchanged.
C6_FirstMatchingBranch ==
    [][\A s \in Threads :
          (inv[s].kind = "message" /\ NotFromBot(inv[s].body)
           /\ inv'[s] # inv[s] /\ ~Finished(s)) =>
          LET event == inv[s].body
              rank == FirstMatch(event)
          IN  /\ inv[s].pc = "route" =>
                    /\ inv'[s].pc = IF rank = 0 THEN "done"
                                    ELSE RankStatements[rank]
                    /\ (inv'[s].pc = "id") <=> OnlyApprovalMatches(event)
              /\ inv[s].pc = "append" =>
                    /\ OnlyApprovalMatches(event)
                    /\ Len(approvals') = Len(approvals) + 1
                    /\ SubSeq(approvals', 1, Len(approvals)) = approvals
                    /\ approvals'[Len(approvals')]["status"] = "pending"
                    /\ approvals'[Len(approvals')]["requester"] = event["user"]
                    /\ inv'[s].rid = approvals'[Len(approvals')]["id"]
                    /\ tasks' = tasks /\ workflows' = workflows
              /\ inv[s].pc # "append" => store' = store
              /\ inv[s].pc \notin {"route", "id", "at", "append"} =>
                    /\ inv'[s].calls = 1
                    /\ inv'[s].out["text"] = RankCallTexts[rank]
                    /\ inv'[s].out["channel"] = event["channel"]
                    /\ rank = 4 =>
                          \A b \in 1..2 :
                              inv'[s].out["blocks"][4]["elements"][b]["value"]
                                  = inv[s].rid
      ]_vars

\* a message whose text is "Approval" has run to its end: its Approval is
\* in the store, pending, and the approval message has gone out
C6_ApprovalRequestedByMessage ==
    \E s \in Threads :
        /\ inv[s].kind = "message"
        /\ inv[s].pc = "done"
        /\ Get(inv[s].body, "text", <<>>)
               = <<"A", "p", "p", "r", "o", "v", "a", "l">>
        /\ inv[s].calls = 1
        /\ inv[s].out["text"] = "Approval request"
        /\ \E i \in 1..Len(approvals) :
              /\ approvals[i]["id"] = inv[s].rid
              /\ approvals[i]["status"] = "pending"

\* C7: a message event whose subtype is bot_message, whatever its text,
\* and a message event whose text has none of the keywords, both leave the
\* three collections unchanged and make no outbound call: the listener
\* returns at once.
C7_PassedOverSilently ==
    [][\A s \in Threads :
          (inv[s].kind = "message" /\ PassedOver(inv[s].body)
           /\ inv'[s] # inv[s]) =>
              /\ store' = store
              /\ inv'[s].calls = 0
              /\ inv'[s].pc \in {"done", "idle"}
      ]_vars

\* a bot message whose text names a keyword has been handled, with no call
C7_BotMessageDone ==
    \E s \in Threads :
        /\ inv[s].kind = "message"
        /\ inv[s].pc = "done"
        /\ Get(inv[s].body, "subtype", PyNone) = "bot_message"
        /\ MentionsKeyword(inv[s].body)
        /\ inv[s].calls = 0

----------------------------------------------------------------------------
(* Properties of the task modal submission. *)

EmptyDueDate(due_date) == due_date \in {"", PyNone}

\* C8: every create_task_modal submission that carries a title and a
\* priority appends exactly one Task, at the end of tasks, with status
\* pending, the submitted title and priority, created_by the submitting
\* user, and description and due_date the empty string when their blocks
\* are absent from the form state; approvals and workflows are unchanged;
\* the confirmation goes to the submitting user and shows "Not set" for
\* the due date exactly when the stored due date is empty.
C8_SubmissionAppendsTask ==
    [][\A s \in Threads :
          (inv[s].kind = "create_task_modal" /\ inv'[s] # inv[s]
           /\ ~Finished(s)) =>
          LET values == inv[s].body["view"]["state"]["values"]
              user == inv[s].body["user"]["id"]
          IN  /\ inv[s].pc = "append" =>
                    LET task == tasks'[Len(tasks')]
                    IN  /\ Len(tasks') = Len(tasks) + 1
                        /\ SubSeq(tasks', 1, Len(tasks)) = tasks
                        /\ task = inv[s].loc["task"]
                        /\ task["status"] = "pending"
                        /\ task["title"] =
                              values["task_title"]["title_input"]["value"]
                        /\ task["priority"] =
                              values["task_priority"]["priority_select"]["selected_option"]["value"]
                        /\ task["created_by"] = user
                        /\ "task_description" \notin DOMAIN values =>
                              task["description"] = ""
                        /\ "task_due_date" \notin DOMAIN values =>
                              task["due_date"] = ""
                        /\ approvals' = approvals /\ workflows' = workflows
              /\ inv[s].pc # "append" => store' = store
              /\ inv[s].pc = "send" =>
                    /\ inv'[s].calls = 1
                    /\ inv'[s].out["op"] = "chat_postMessage"
                    /\ inv'[s].out["channel"] = user
                    /\ \E i \in 1..Len(tasks) : tasks[i] = inv[s].loc["task"]
                    /\ (inv'[s].out["blocks"][2]["text"]["text"][6] = "Not set")
                          <=> EmptyDueDate(inv[s].loc["task"]["due_date"])
      ]_vars

\* a submission without description and due-date blocks has run to its
\* end, its task stored behind an earlier one and confirmed as "Not set"
C8_BareSubmissionDone ==
    \E s \in Threads :
        /\ inv[s].kind = "create_task_modal"
        /\ inv[s].pc = "done"
        /\ DOMAIN inv[s].body["view"]["state"]["values"]
               = {"task_title", "task_priority"}
        /\ Len(tasks) >= 2
        /\ tasks[Len(tasks)] = inv[s].loc["task"]
        /\ tasks[Len(tasks)]["description"] = ""
        /\ tasks[Len(tasks)]["due_date"] = ""
        /\ inv[s].out["blocks"][2]["text"]["text"][6] = "Not set"
----------------------------------------------------------------------------
(* Properties of a decision on an unknown id. *)

CarriedValue(s) == inv[s].body["actions"][1]["value"]
KnownIds == {approvals[i]["id"] : i \in 1..Len(approvals)}

\* the lookup of this invocation has run and found no record
Unmatched(s) ==
    /\ inv[s].kind \in DecisionKinds
    /\ inv[s].pc \in {"blocks", "send", "done", "raised"}
    /\ inv[s].idx = 0

\* C9: an approve_request or reject_request action whose carried value
\* matches no Approval id is a silent no-op on the store: its lookup goes
\* straight on to the blocks of the message update, none of its steps
\* creates or changes a record in any collection, and the unknown id
\* raises nothing: the invocation ends in an error only when its outbound
\* call fails.
C9_UnknownIdNoOp ==
    [][\A s \in Threads :
          (inv[s].kind \in DecisionKinds /\ inv'[s] # inv[s]) =>
              /\ (inv[s].pc = "find" /\ CarriedValue(s) \notin KnownIds) =>
                    /\ inv'[s].pc = "blocks"
                    /\ inv'[s].idx = 0
                    /\ store' = store
              /\ (Unmatched(s) /\ inv[s].pc = "blocks") =>
                    /\ inv'[s].pc = "send"
                    /\ store' = store
              /\ (Unmatched(s) /\ inv[s].pc = "send") =>
                    /\ store' = store
                    /\ inv'[s].pc \in {"done", "raised"}
                    /\ (inv'[s].pc = "raised") <=> ~inv'[s].out["ok"]
      ]_vars

\* a decision on an id the store does not hold has run to its end, with a
\* record in the store that it could have touched
C9_UnknownIdDone ==
    \E s \in Threads :
        /\ Unmatched(s)
        /\ inv[s].pc = "done"
        /\ CarriedValue(s) = StaleRequestId
        /\ Len(approvals) >= 1
        /\ \A i \in 1..Len(approvals) : approvals[i]["status"] = "pending"

----------------------------------------------------------------------------
(* Properties of the pending-task reminder. *)

PendingIndices == {i \in 1..Len(tasks) : tasks[i]["status"] = "pending"}

\* the position in tasks of the k-th pending task
KthPending(k) ==
    CHOOSE j \in PendingIndices :
        Cardinality({i \in PendingIndices : i <= j}) = k

Min(a, b) == IF a <= b THEN a ELSE b

\* the pending tasks of the store, in store order
PendingInStore == [k \in 1..Cardinality(PendingIndices) |-> tasks[KthPending(k)]]

\* the text of the section of a reminder
ReminderText(call) == call["blocks"][2]["text"]["text"]

\* C10: when check_pending_tasks runs with n >= 1 pending tasks in the
\* store, the tasks it reads are those n in store order, and the reminder
\* it then sends states n in its text and has exactly min(5, n) lines, the
\* k-th line carrying the title and the priority of the k-th pending task
\* of the store; n is the total of the store at the send too unless a
\* listener has written to the store since the run began.
C10_ReminderCountsAndLists ==
    [][\A s \in Threads :
          (inv[s].kind = "check_pending_tasks" /\ inv'[s] # inv[s]
           /\ ~Finished(s)) =>
              /\ (inv[s].pc = "run" /\ PendingIndices # {}) =>
                    /\ inv'[s].pc = "send"
                    /\ inv'[s].loc["pending_tasks"] = PendingInStore
              /\ inv[s].pc = "send" =>
                    LET found == inv[s].loc["pending_tasks"]
                        n == Len(found)
                        text == ReminderText(inv'[s].out)
                    IN  /\ n >= 1
                        /\ inv'[s].calls = 1
                        /\ text[1] = "You have "
                        /\ text[2] = ToString(n)
                        /\ Len(text[4]) = Min(ReminderListLimit, n)
                        /\ \A k \in 1..Min(ReminderListLimit, n) :
                              /\ text[4][k][2] = tasks[KthPending(k)]["title"]
                              /\ text[4][k][4] =
                                    tasks[KthPending(k)]["priority"]
                        /\ undisturbed[s] => n = Cardinality(PendingIndices)
      ]_vars

\* a reminder has gone out with more pending tasks than the list shows,
\* the tasks differing in title and priority
C10_TruncatedReminderSent ==
    \E s \in Threads :
        /\ inv[s].kind = "check_pending_tasks"
        /\ inv[s].pc = "done"
        /\ inv[s].calls = 1
        /\ Len(inv[s].loc["pending_tasks"]) > ReminderListLimit
        /\ ReminderText(inv[s].out)[2] = ToString(Cardinality(PendingIndices))
        /\ tasks[1]["title"] # tasks[2]["title"]
        /\ tasks[1]["priority"] # tasks[2]["priority"]

----------------------------------------------------------------------------
(* Properties of the scheduled jobs. *)

\* C11: a run of check_pending_tasks while no task in the store is
\* pending (the empty store included) makes no outbound call and ends; a
\* run with at least one pending task makes exactly one send attempt, a
\* chat_postMessage, and ends; either way the store is left as it was.
C11_RemindsOnlyWhenPending ==
    [][\A s \in Threads :
          (inv[s].kind = "check_pending_tasks" /\ inv'[s] # inv[s]
           /\ ~Finished(s)) =>
              /\ store' = store
              /\ inv[s].pc = "run" =>
                    /\ inv[s].calls = 0
                    /\ inv'[s].calls = 0 /\ inv'[s].out = NoCall
                    /\ inv'[s].pc = IF PendingIndices = {} THEN "done"
                                                           ELSE "send"
              /\ inv[s].pc = "send" =>
                    /\ inv'[s].pc = "done"
                    /\ inv'[s].calls = 1
                    /\ inv'[s].out["op"] = "chat_postMessage"
                    /\ inv'[s].out["text"] = "Pending tasks reminder"
      ]_vars

\* the job has run over the empty store and ended without a call
C11_QuietRunDone ==
    \E s \in Threads :
        /\ inv[s].kind = "check_pending_tasks"
        /\ inv[s].pc = "done"
        /\ tasks = <<>>
        /\ inv[s].calls = 0
        /\ inv[s].out = NoCall

PendingApprovalIndices ==
    {i \in 1..Len(approvals) : approvals[i]["status"] = "pending"}

\* the three counts a daily report carries, as it renders them
ReportCountsOf(blocks) ==
    LET text == blocks[2]["text"]["text"]
    IN  <<text[4], text[6], text[8]>>
ReportCounts(call) == ReportCountsOf(call["blocks"])

\* the counts of the store as it is
StoreCounts ==
    << ToString(Len(tasks)),
       ToString(Cardinality(PendingApprovalIndices)),
       ToString(Len(workflows)) >>

\* C12: whatever the listeners have done before, a run of
\* send_daily_report makes exactly one send, to the default channel, of a
\* summary that carries the counts the run has read: the number of tasks
\* in the store, the number of approvals it has seen with status pending
\* (approved and rejected ones left out) and the number of workflows.  The
\* counts are those of the store at the send unless a listener has written
\* to the store since the run began; over the empty store the report is
\* still sent, with 0, 0, 0.
C12_ReportCountsStore ==
    [][\A s \in Threads :
          (inv[s].kind = "send_daily_report" /\ inv'[s] # inv[s]
           /\ ~Finished(s)) =>
              /\ store' = store
              /\ inv[s].pc = "tasks" =>
                    /\ inv'[s].loc["n_tasks"] = Len(tasks)
                    /\ inv'[s].loc["n_pending"] = 0
              /\ inv[s].pc = "scan" =>
                    LET i == inv[s].loc["i"]
                    IN  IF i < Len(approvals)
                        THEN /\ inv'[s].pc = "scan"
                             /\ inv'[s].loc["i"] = i + 1
                             /\ inv'[s].loc["n_pending"] =
                                  inv[s].loc["n_pending"]
                                  + (IF approvals[i + 1]["status"] = "pending"
                                     THEN 1 ELSE 0)
                        ELSE inv'[s].pc = "workflows"
              /\ inv[s].pc = "workflows" =>
                    ReportCountsOf(inv'[s].loc["blocks"])
                        = << ToString(inv[s].loc["n_tasks"]),
                             ToString(inv[s].loc["n_pending"]),
                             ToString(Len(workflows)) >>
              /\ inv[s].pc = "send" =>
                    /\ inv'[s].pc = "done"
                    /\ inv[s].calls = 0 /\ inv'[s].calls = 1
                    /\ inv'[s].out["op"] = "chat_postMessage"
                    /\ inv'[s].out["channel"] = default_channel
                    /\ inv'[s].out["blocks"] = inv[s].loc["blocks"]
                    /\ undisturbed[s] =>
                          ReportCounts(inv'[s].out) = StoreCounts
                    /\ (tasks = <<>> /\ approvals = <<>> /\ workflows = <<>>)
                          => ReportCounts(inv'[s].out) = <<"0", "0", "0">>
      ]_vars

\* a report has gone out over a store whose one approval is decided: the
\* approval is not counted
C12_ReportAfterDecision ==
    \E s \in Threads :
        /\ inv[s].kind = "send_daily_report"
        /\ inv[s].pc = "done"
        /\ inv[s].calls = 1
        /\ undisturbed[s]
        /\ Len(approvals) = 1
        /\ approvals[1]["status"] \in {"approved", "rejected"}
        /\ ReportCounts(inv[s].out) = StoreCounts
        /\ ReportCounts(inv[s].out)[2] = "0"
----------------------------------------------------------------------------
(* The scheduler: both jobs fire again and again, next to task            *)
(* submissions; every started listener and job runs on.                   *)

JobSteps(s) ==
    \/ Return(s)
    \/ handle_task_modal_submit_ack(s)
    \/ handle_task_modal_submit_id(s)
    \/ handle_task_modal_submit_at(s)
    \/ handle_task_modal_submit_append(s)
    \/ handle_task_modal_submit_send(s)
    \/ send_daily_report_date(s)
    \/ send_daily_report_tasks(s)
    \/ send_daily_report_scan(s)
    \/ send_daily_report_workflows(s)
    \/ send_daily_report(s)
    \/ check_pending_tasks_scan(s)
    \/ check_pending_tasks(s)

\* the cron trigger of a job fires and a free thread takes the run
Fire_send_daily_report ==
    /\ started < MaxScheduled
    /\ NotRunning("send_daily_report")
    /\ \E s \in Threads : run_send_daily_report(s)

Fire_check_pending_tasks ==
    /\ started < MaxScheduled
    /\ NotRunning("check_pending_tasks")
    /\ \E s \in Threads : run_check_pending_tasks(s)

JobsNext ==
    \/ Tick
    \/ \E s \in Threads : JobSteps(s)
    \/ /\ RoomForTask(MaxJobTasks)
       /\ \E s \in Threads : \E b \in JobSubmissions :
              recv_create_task_modal(s, b)
    \/ Fire_send_daily_report
    \/ Fire_check_pending_tasks

\* the cron triggers fire whatever happened before (strong fairness of the
\* two dispatches); a running listener or job is not starved
JobsFairness ==
    /\ SF_vars(Fire_send_daily_report)
    /\ SF_vars(Fire_check_pending_tasks)
    /\ \A s \in Threads : WF_vars(JobSteps(s))

SpecJobs == Init /\ [][JobsNext]_vars /\ JobsFairness

\* the job of this kind has made its send and the send has failed
SendFailedIn(kind) ==
    \E s \in Threads :
        /\ inv[s].kind = kind
        /\ inv[s].pc \in {"done", "raised"}
        /\ inv[s].calls = 1
        /\ ~inv[s].out["ok"]

\* a run of the job of this kind is under way
RunningJob(kind) ==
    \E s \in Threads : inv[s].kind = kind /\ ~Finished(s)

\* C13: a run of send_daily_report or check_pending_tasks ends normally
\* whether its send succeeds or fails, never in an error that reaches the
\* scheduler, and none of its steps changes the store; and after a failed
\* send the same job runs again at a later tick (as long as the scheduler
\* has ticks left to fire).
C13_JobsSurviveFailedSend ==
    /\ [][\A s \in Threads :
            (inv[s].kind \in JobKinds /\ ~Finished(s)
             /\ inv'[s] # inv[s]) =>
                /\ inv'[s].pc # "raised"
                /\ inv[s].pc = "send" =>
                      /\ inv'[s].pc = "done"
                      /\ inv'[s].calls = 1
                /\ store' = store
        ]_vars
    /\ \A kind \in JobKinds :
          SendFailedIn(kind) ~> (RunningJob(kind) \/ started >= MaxScheduled)

\* the reminder job has ended normally although its send failed, in a run
\* that was not the scheduler's first
C13_FailedReminderDone ==
    \E s \in Threads :
        /\ inv[s].kind = "check_pending_tasks"
        /\ inv[s].pc = "done"
        /\ inv[s].calls = 1
        /\ ~inv[s].out["ok"]
        /\ tasks # <<>>
        /\ started >= 3

----------------------------------------------------------------------------
(* Delivery errors in the interactive listeners. *)

InteractiveKinds == ListenerKinds \ {"app_home_opened"}

\* C14: in every interactive listener (message, /automation,
\* open_task_modal, create_task_modal submission, view_workflow_example,
\* request_approval, approve_request, reject_request) a delivery error of
\* the outbound call is caught at the call site and swallowed: the
\* listener never ends in an error that reaches its caller.
C14_DeliveryErrorsSwallowed ==
    \A s \in Threads :
        inv[s].kind \in InteractiveKinds => inv[s].pc # "raised"

----------------------------------------------------------------------------
(* Identifiers. *)

\* C15: in every reachable state of the store no two tasks share an id and
\* no two approvals share an id, two creations that read the same clock
\* value included.
C15_IdsUnique ==
    /\ \A i, j \in 1..Len(tasks) :
          tasks[i]["id"] = tasks[j]["id"] => i = j
    /\ \A i, j \in 1..Len(approvals) :
          approvals[i]["id"] = approvals[j]["id"] => i = j

\* the values the clock takes
ClockValues == 0..MaxClock

\* C15, as the code has it: an id is the reading of the clock at its
\* creation, formatted, and is stored as read; two readings give the same
\* id exactly when they are of the same clock value.  So ids are unique
\* among the creations that read different clock values, and two
\* creations of one kind that read the same clock value are stored under
\* the same id.
C15_IdsUniquePerClockValue ==
    /\ [](\A t, u \in ClockValues :
            /\ (TaskId(t) = TaskId(u)) <=> (t = u)
            /\ (RequestId(t) = RequestId(u)) <=> (t = u))
    /\ [][\A s \in Threads :
            inv'[s] # inv[s] =>
                /\ (inv[s].kind = "create_task_modal" /\ inv[s].pc = "id")
                      => inv'[s].rid = TaskId(now)
                /\ (inv[s].kind \in {"request_approval", "message"}
                    /\ inv[s].pc = "id")
                      => inv'[s].rid = RequestId(now)
                /\ (inv[s].kind = "create_task_modal"
                    /\ inv[s].pc = "append")
                      => /\ Len(tasks') = Len(tasks) + 1
                         /\ tasks'[Len(tasks')]["id"] = inv[s].rid
                /\ (inv[s].kind \in {"request_approval", "message"}
                    /\ inv[s].pc = "append")
                      => /\ Len(approvals') = Len(approvals) + 1
                         /\ approvals'[Len(approvals')]["id"] = inv[s].rid
        ]_vars

\* two different tasks stored under one id
C15_TwoTasksOneId ==
    /\ Len(tasks) = 2
    /\ tasks[1]["id"] = tasks[2]["id"]
    /\ tasks[1]["title"] # tasks[2]["title"]

----------------------------------------------------------------------------
(* The workflows collection. *)

\* C16: the workflows collection is empty in every reachable state: no
\* listener and no scheduled job appends to it or changes it.
C16_WorkflowsEmpty == workflows = <<>>

\* the workflow example has been shown, with a task and an approval in the
\* store, and workflows is still empty
C16_WorkflowShownNotStored ==
    \E s \in Threads :
        /\ inv[s].kind = "view_workflow_example"
        /\ inv[s].pc = "done"
        /\ inv[s].calls = 1
        /\ Len(tasks) >= 1
        /\ Len(approvals) >= 1
        /\ workflows = <<>>

----------------------------------------------------------------------------
(* The block builders on their own: one call of one builder, its          *)
(* arguments drawn from the sets below, its return value kept in out.     *)

OptionalStrings == {PyNone, "", "given"}

ApprovalMessageArgs ==
    {[requester |-> r, request_type |-> "Budget Approval",
      details |-> "Requesting approval for Q4 marketing budget",
      request_id |-> id] :
        r \in {"<@U1>", "<@U2>"},
        id \in {"", "x", StaleRequestId} \cup {RequestId(t) : t \in 0..MaxClock}}

SectionArgs ==
    {[text |-> "Some text", accessory |-> a] :
        a \in {PyNoneDict, EmptyDict,
               create_button_block("Go", "go", PyNone, PyNone, PyNone)}}

ButtonArgs ==
    {[text |-> "Go", action_id |-> "go", value |-> v, style |-> st,
      url |-> u] :
        v \in OptionalStrings, st \in {PyNone, "", "primary", "danger"},
        u \in OptionalStrings}

InputBlockArgs ==
    {[block_id |-> "task_title", label |-> "Task Title",
      element |-> create_text_input("title_input", PyNone, PyNone, FALSE),
      hint |-> h, optional |-> o] :
        h \in OptionalStrings, o \in BOOLEAN}

TextInputArgs ==
    {[action_id |-> "title_input", placeholder |-> p, initial_value |-> v,
      multiline |-> m] :
        p \in OptionalStrings, v \in OptionalStrings, m \in BOOLEAN}

DatepickerArgs ==
    {[action_id |-> "due_date_picker", initial_date |-> d] :
        d \in OptionalStrings}

\* a step as a caller may hand it over: status completed, spelled
\* otherwise, another status, empty, or left out
StepShapes ==
    { [name |-> "Collect", description |-> "Collecting", status |-> "completed"],
      [name |-> "Process", status |-> "Completed"],
      [name |-> "Report", description |-> "Reporting", status |-> "in_progress"],
      [name |-> "Notify", description |-> "Notifying"],
      [name |-> "Archive", status |-> ""] }

StepLists == UNION {[1..n -> StepShapes] : n \in 0..MaxSteps}

WorkflowMessageArgs ==
    {[title |-> "Daily Report Automation", status |-> "In Progress",
      description |-> "Automated daily report generation workflow",
      steps |-> steps] : steps \in StepLists}

BuilderCalls ==
    {[kind |-> "create_approval_message", args |-> a] : a \in ApprovalMessageArgs}
    \cup {[kind |-> "create_section_block", args |-> a] : a \in SectionArgs}
    \cup {[kind |-> "create_button_block", args |-> a] : a \in ButtonArgs}
    \cup {[kind |-> "create_input_block", args |-> a] : a \in InputBlockArgs}
    \cup {[kind |-> "create_text_input", args |-> a] : a \in TextInputArgs}
    \cup {[kind |-> "create_datepicker", args |-> a] : a \in DatepickerArgs}
    \cup {[kind |-> "create_workflow_message", args |-> a] :
             a \in WorkflowMessageArgs}

\* return value
Returns(s, value) ==
    inv' = [inv EXCEPT ![s].out = [op |-> "return", value |-> value],
                       ![s].pc = "done"]

call_create_approval_message(s) ==
    /\ At(s, "create_approval_message", "call")
    /\ LET a == inv[s].body
       IN  Returns(s, create_approval_message(a.requester, a.request_type,
                                              a.details, a.request_id))
    /\ UNCHANGED <<store, now, environ, history>>

call_create_section_block(s) ==
    /\ At(s, "create_section_block", "call")
    /\ LET a == inv[s].body
       IN  Returns(s, create_section_block(a.text, a.accessory))
    /\ UNCHANGED <<store, now, environ, history>>

call_create_button_block(s) ==
    /\ At(s, "create_button_block", "call")
    /\ LET a == inv[s].body
       IN  Returns(s, create_button_block(a.text, a.action_id, a.value,
                                          a.style, a.url))
    /\ UNCHANGED <<store, now, environ, history>>

call_create_input_block(s) ==
    /\ At(s, "create_input_block", "call")
    /\ LET a == inv[s].body
       IN  Returns(s, create_input_block(a.block_id, a.label, a.element,
                                         a.hint, a.optional))
    /\ UNCHANGED <<store, now, environ, history>>

call_create_text_input(s) ==
    /\ At(s, "create_text_input", "call")
    /\ LET a == inv[s].body
       IN  Returns(s, create_text_input(a.action_id, a.placeholder,
                                        a.initial_value, a.multiline))
    /\ UNCHANGED <<store, now, environ, history>>

call_create_datepicker(s) ==
    /\ At(s, "create_datepicker", "call")
    /\ LET a == inv[s].body
       IN  Returns(s, create_datepicker(a.action_id, a.initial_date))
    /\ UNCHANGED <<store, now, environ, history>>

call_create_workflow_message(s) ==
    /\ At(s, "create_workflow_message", "call")
    /\ LET a == inv[s].body
       IN  Returns(s, create_workflow_message(a.title, a.status,
                                              a.description, a.steps))
    /\ UNCHANGED <<store, now, environ, history>>

\* the pure builders are called on one thread
BuilderThread == "th1"

BuildersInit ==
    /\ tasks = <<>>
    /\ workflows = <<>>
    /\ approvals = <<>>
    /\ now = 0
    /\ started = 0
    /\ last_write = <<>>
    /\ environ = EmptyDict
    /\ undisturbed = [s \in Threads |-> FALSE]
    /\ \E c \in BuilderCalls :
          inv = [s \in Threads |->
                    IF s = BuilderThread
                    THEN [Idle EXCEPT !.kind = c.kind, !.pc = "call",
                                      !.body = c.args]
                    ELSE Idle]

BuildersNext ==
    \/ call_create_approval_message(BuilderThread)
    \/ call_create_section_block(BuilderThread)
    \/ call_create_button_block(BuilderThread)
    \/ call_create_input_block(BuilderThread)
    \/ call_create_text_input(BuilderThread)
    \/ call_create_datepicker(BuilderThread)
    \/ call_create_workflow_message(BuilderThread)

SpecBuilders == BuildersInit /\ [][BuildersNext]_vars

\* the call of this builder that has returned, if any
Returned(s, kind) == inv[s].kind = kind /\ inv[s].pc = "done"

----------------------------------------------------------------------------
(* Properties of the block builders. *)

ApprovalButtons ==
    << [action_id |-> "approve_request", style |-> "primary"],
       [action_id |-> "reject_request", style |-> "danger"],
       [action_id |-> "view_details", style |-> PyNone] >>

\* the message has five blocks; the fourth is an actions row of exactly
\* the three buttons, in their order and with their styles; the fifth is
\* a context block whose text carries the id as it was given
ApprovalRowAndContext(blocks, id) ==
    /\ Len(blocks) = 5
    /\ blocks[4]["type"] = "actions"
    /\ Len(blocks[4]["elements"]) = 3
    /\ \A b \in 1..3 :
          LET button == blocks[4]["elements"][b]
          IN  /\ button["type"] = "button"
              /\ button["action_id"] = ApprovalButtons[b]["action_id"]
              /\ Get(button, "style", PyNone) = ApprovalButtons[b]["style"]
    /\ blocks[5]["type"] = "context"
    /\ Len(blocks[5]["elements"]) = 1
    /\ blocks[5]["elements"][1]["text"] = <<"Request ID: ", id>>

\* C17 as stated: for every request id, the empty string included, the
\* three buttons carry value = id.
C17_ButtonsCarryId ==
    \A s \in Threads :
        Returned(s, "create_approval_message") =>
            LET id == inv[s].body["request_id"]
                blocks == inv[s].out["value"]
            IN  /\ ApprovalRowAndContext(blocks, id)
                /\ \A b \in 1..3 :
                      LET button == blocks[4]["elements"][b]
                      IN  /\ "value" \in DOMAIN button
                          /\ button["value"] = id

\* C17, as the builder behaves: for every request id the actions row has
\* exactly the three buttons approve_request (primary), reject_request
\* (danger), view_details (no style), in this order, followed by a context
\* block whose text contains the id verbatim; each button carries
\* value = id when the id is not the empty string, and no value key at all
\* when it is.
C17_ButtonsCarryNonEmptyId ==
    \A s \in Threads :
        Returned(s, "create_approval_message") =>
            LET id == inv[s].body["request_id"]
                blocks == inv[s].out["value"]
            IN  /\ ApprovalRowAndContext(blocks, id)
                /\ \A b \in 1..3 :
                      LET button == blocks[4]["elements"][b]
                      IN  IF id = ""
                          THEN "value" \notin DOMAIN button
                          ELSE /\ "value" \in DOMAIN button
                               /\ button["value"] = id

\* the builder has returned for the empty id: three buttons, none with a
\* value
C17_EmptyIdBuilt ==
    \E s \in Threads :
        /\ Returned(s, "create_approval_message")
        /\ inv[s].body["request_id"] = ""
        /\ Len(inv[s].out["value"][4]["elements"]) = 3
        /\ \A b \in 1..3 :
              "value" \notin DOMAIN inv[s].out["value"][4]["elements"][b]

\* the optional fields of the builders: the builder, the parameter (the
\* output key has the same name) and what the parameter holds
OptionalFields ==
    { [kind |-> "create_section_block", arg |-> "accessory", type |-> "dict"],
      [kind |-> "create_button_block", arg |-> "value", type |-> "str"],
      [kind |-> "create_button_block", arg |-> "style", type |-> "str"],
      [kind |-> "create_button_block", arg |-> "url", type |-> "str"],
      [kind |-> "create_input_block", arg |-> "hint", type |-> "text"],
      [kind |-> "create_input_block", arg |-> "optional", type |-> "flag"],
      [kind |-> "create_text_input", arg |-> "placeholder", type |-> "text"],
      [kind |-> "create_text_input", arg |-> "initial_value", type |-> "str"],
      [kind |-> "create_text_input", arg |-> "multiline", type |-> "flag"],
      [kind |-> "create_datepicker", arg |-> "initial_date", type |-> "str"] }

\* a non-empty value was supplied for the parameter
Supplied(v, type) ==
    CASE type = "dict" -> v # PyNoneDict /\ v # EmptyDict
      [] type = "flag" -> v = TRUE
      [] OTHER -> v # PyNone /\ v # ""

\* what the output holds under the key for a supplied value
Carried(v, type) ==
    IF type = "text" THEN [type |-> "plain_text", text |-> v] ELSE v

\* C18: for every builder with optional fields (section accessory; button
\* value, style, url; input hint and optional flag; text_input
\* placeholder, initial_value, multiline; datepicker initial_date) the
\* output has the field's key if and only if a non-empty value was
\* supplied, and then the key holds that value: never an empty or null
\* one.
C18_OptionalKeysOnlyWhenSupplied ==
    \A s \in Threads : \A f \in OptionalFields :
        Returned(s, f.kind) =>
            LET v == inv[s].body[f.arg]
                result == inv[s].out["value"]
            IN  /\ (f.arg \in DOMAIN result) <=> Supplied(v, f.type)
                /\ (f.arg \in DOMAIN result) =>
                       /\ result[f.arg] = Carried(v, f.type)
                       /\ Supplied(result[f.arg], IF f.type = "text"
                                                  THEN "dict" ELSE f.type)

\* a button built from an empty value, a style and no url has returned:
\* it has the style key and neither of the other two
C18_ButtonWithStyleOnly ==
    \E s \in Threads :
        /\ Returned(s, "create_button_block")
        /\ inv[s].body["value"] = ""
        /\ inv[s].body["style"] = "primary"
        /\ inv[s].body["url"] = PyNone
        /\ DOMAIN inv[s].out["value"]
               = {"type", "text", "action_id", "style"}

\* the glyph a step is to carry
StepGlyph(step) ==
    IF "status" \in DOMAIN step /\ step["status"] = "completed"
    THEN "[check]" ELSE "[hourglass]"

\* C19: for every step list create_workflow_message returns the four
\* fixed leading blocks (header, section, divider, header "Workflow
\* Steps") followed by exactly one section per step, in input order; the
\* k-th of them (from 1) is labelled "Step k", names the k-th step, and
\* carries the completed glyph if and only if that step's status is
\* exactly "completed": any other status, an absent one included, gives
\* the other glyph.
C19_OneSectionPerStep ==
    \A s \in Threads :
        Returned(s, "create_workflow_message") =>
            LET steps == inv[s].body["steps"]
                blocks == inv[s].out["value"]
            IN  /\ Len(blocks) = 4 + Len(steps)
                /\ blocks[1]["type"] = "header"
                /\ blocks[2]["type"] = "section"
                /\ blocks[3]["type"] = "divider"
                /\ blocks[4] = create_header_block("Workflow Steps")
                /\ \A k \in 1..Len(steps) :
                      LET text == blocks[4 + k]["text"]["text"]
                      IN  /\ blocks[4 + k]["type"] = "section"
                          /\ text[1] = StepGlyph(steps[k])
                          /\ text[2] = " *Step "
                          /\ text[3] = ToString(k)
                          /\ text[5] = steps[k]["name"]

\* a message has been built from two steps, the first without a status,
\* the second completed
C19_TwoStepsBuilt ==
    \E s \in Threads :
        /\ Returned(s, "create_workflow_message")
        /\ Len(inv[s].body["steps"]) = 2
        /\ "status" \notin DOMAIN inv[s].body["steps"][1]
        /\ Get(inv[s].body["steps"][2], "status", PyNone) = "completed"
        /\ inv[s].out["value"][5]["text"]["text"][1] = "[hourglass]"
        /\ inv[s].out["value"][6]["text"]["text"][1] = "[check]"

----------------------------------------------------------------------------
(* The confirmation of a decision. *)

\* the field in which a decision of this kind records its actor
ActorField(kind) ==
    IF kind = "approve_request" THEN "approved_by" ELSE "rejected_by"

NoButtons(blocks) ==
    \A b \in 1..Len(blocks) :
        /\ blocks[b]["type"] # "actions"
        /\ "accessory" \notin DOMAIN blocks[b]

\* C20: every approve_request or reject_request invocation performs its
\* store update first and then exactly one outbound call: while it has
\* statements of the update ahead it has made no call, the call is made
\* with the update (if a record matched) already in the store, and after
\* the call it changes nothing.  The call is a chat_update of the message
\* named by the interaction's channel and message ts, never a
\* chat_postMessage, and its blocks hold no actions row and no button.
C20_UpdateThenEditInPlace ==
    [][\A s \in Threads :
          (inv[s].kind \in DecisionKinds /\ inv'[s] # inv[s]) =>
              /\ inv[s].pc # "send" /\ ~Finished(s) =>
                    /\ inv[s].calls = 0
                    /\ inv'[s].calls = 0
              /\ inv[s].pc \in {"blocks", "send"} =>
                    /\ store' = store
                    /\ inv[s].idx # 0 =>
                          /\ ActorField(inv[s].kind)
                                 \in DOMAIN approvals[inv[s].idx]
                          /\ approvals[inv[s].idx]["status"] # "pending"
              /\ inv[s].pc = "send" =>
                    /\ inv'[s].calls = 1
                    /\ Finished(s)'
                    /\ inv'[s].out["op"] = "chat_update"
                    /\ inv'[s].out["channel"] = inv[s].body["channel"]["id"]
                    /\ inv'[s].out["ts"] = inv[s].body["message"]["ts"]
                    /\ NoButtons(inv'[s].out["blocks"])
              /\ Finished(s) =>
                    /\ inv[s].calls = 1
                    /\ store' = store
      ]_vars

\* an approval of a stored request has ended: the record is approved and
\* the one call was an update of the message
C20_ApprovalConfirmed ==
    \E s \in Threads :
        /\ inv[s].kind = "approve_request"
        /\ inv[s].pc = "done"
        /\ inv[s].idx # 0
        /\ approvals[inv[s].idx]["status"] = "approved"
        /\ inv[s].calls = 1
        /\ inv[s].out["op"] = "chat_update"

----------------------------------------------------------------------------
(* The jobs and the store. *)

\* C21: the two scheduled jobs only read the store: no step of a run of
\* send_daily_report or check_pending_tasks, from its start to its return
\* and whether its send succeeds or fails, changes tasks, workflows or
\* approvals.
C21_JobsOnlyRead ==
    [][\A s \in Threads :
          (inv'[s] # inv[s]
           /\ (inv[s].kind \in JobKinds \/ inv'[s].kind \in JobKinds)) =>
              /\ tasks' = tasks
              /\ workflows' = workflows
              /\ approvals' = approvals
      ]_vars

\* the daily report has run over a store with a task and an approval in
\* it and its send has failed
C21_ReportFailedOverStore ==
    \E s \in Threads :
        /\ inv[s].kind = "send_daily_report"
        /\ inv[s].pc = "done"
        /\ inv[s].calls = 1
        /\ ~inv[s].out["ok"]
        /\ Len(tasks) >= 1
        /\ Len(approvals) >= 1

----------------------------------------------------------------------------
(* The pending approvals. *)

PendingCount == Cardinality(PendingApprovalIndices)

\* the thread that takes this step, when it is a step of a listener
Stepping(s, kinds) == inv'[s] # inv[s] /\ inv[s].kind \in kinds

\* C22: once an approval's status has left pending it never is pending
\* again; under every interleaving the number of pending approvals goes
\* down only in a step of approve_request or reject_request, by the one
\* record it decides, and goes up only in a step that appends a new
\* approval, by that one pending record.
C22_PendingNeverReturns ==
    [][/\ Len(approvals') >= Len(approvals)
       /\ \A i \in 1..Len(approvals) :
             approvals[i]["status"] # "pending"
                 => approvals'[i]["status"] # "pending"
       /\ PendingCount' < PendingCount =>
             /\ PendingCount' = PendingCount - 1
             /\ Len(approvals') = Len(approvals)
             /\ \E s \in Threads : Stepping(s, DecisionKinds)
       /\ PendingCount' > PendingCount =>
             /\ PendingCount' = PendingCount + 1
             /\ Len(approvals') = Len(approvals) + 1
             /\ approvals'[Len(approvals')]["status"] = "pending"
             /\ \E s \in Threads : Stepping(s, {"request_approval", "message"})
      ]_vars

\* next to the other listeners and the jobs, one approval has been
\* approved and then rejected: it has been decided twice and is not
\* pending again
C22_RejectedAfterApproval ==
    \E i \in 1..Len(approvals) :
        /\ approvals[i]["status"] = "rejected"
        /\ "approved_by" \in DOMAIN approvals[i]
        /\ "rejected_by" \in DOMAIN approvals[i]
        /\ PendingCount = 0

----------------------------------------------------------------------------
(* The ids on the approval messages. *)

ApprovalSenders == {"request_approval", "message"}

\* the values of the Approve and the Reject button of an approval message
DecisionButtonValues(call) ==
    {call["blocks"][4]["elements"][b]["value"] : b \in 1..2}

\* C23: every approval message that is sent carries, as the value of its
\* Approve and its Reject button, the id of an approval that is in the
\* store at the moment of the send, whether the send succeeds or fails;
\* no id ever leaves the store; and an approve_request or reject_request
\* that carries an id in the store finds a record with that id.
C23_SentIdsAreStored ==
    [][/\ KnownIds \subseteq KnownIds'
       /\ \A s \in Threads :
             (Stepping(s, ApprovalSenders) /\ inv[s].pc = "send") =>
                 /\ inv'[s].calls = 1
                 /\ inv'[s].out["text"] = "Approval request"
                 /\ DecisionButtonValues(inv'[s].out) = {inv[s].rid}
                 /\ inv[s].rid \in KnownIds
                 /\ inv[s].rid \in KnownIds'
       /\ \A s \in Threads :
             (Stepping(s, DecisionKinds) /\ inv[s].pc = "find"
              /\ CarriedValue(s) \in KnownIds) =>
                 /\ inv'[s].idx \in 1..Len(approvals)
                 /\ approvals[inv'[s].idx]["id"] = CarriedValue(s)
      ]_vars

\* the send of an approval message has failed and its approval is in the
\* store, the clock having moved on since the record was made
C23_UnsentApprovalStored ==
    \E s \in Threads :
        /\ inv[s].kind \in ApprovalSenders
        /\ inv[s].pc = "raised"
        /\ inv[s].calls = 1
        /\ inv[s].rid \in KnownIds
        /\ inv[s].rid # RequestId(now)

----------------------------------------------------------------------------
(* The confirmation under a race. *)

\* the status a confirmation shows
ShownStatus(call) ==
    IF call["text"] = "Request approved" THEN "approved" ELSE "rejected"

\* s and t are an approval and a rejection of one stored request, fired
\* from the same message
RacingDecisions(s, t) ==
    /\ {inv[s].kind, inv[t].kind} = DecisionKinds
    /\ CarriedValue(s) = CarriedValue(t)
    /\ inv[s].body["message"] = inv[t].body["message"]
    /\ inv[s].body["channel"] = inv[t].body["channel"]
    /\ inv[s].idx # 0
    /\ inv[s].idx = inv[t].idx

\* C24: when handle_approve and handle_reject run for the same existing
\* approval id with their steps interleaved, the status shown in the
\* edited message once both have completed equals the status stored for
\* that approval: the edit that comes last, made when the other listener
\* has completed, shows the stored status.
C24_ShownStatusIsStored ==
    [][\A s, t \in Threads :
          (/\ s # t
           /\ RacingDecisions(s, t)
           /\ inv[t].pc = "done"
           /\ inv[s].pc = "send"
           /\ inv'[s].pc = "done") =>
              ShownStatus(inv'[s].out) = approvals'[inv[s].idx]["status"]
      ]_vars

----------------------------------------------------------------------------
(* Tasks stay pending. *)

\* C25: no step changes a task's status or removes a task, so every
\* stored task is pending in every reachable state; and once a task has
\* been created every run of check_pending_tasks finds every task of the
\* store pending and attempts one reminder send, whose stated count is
\* the number of tasks it found: the total number of tasks in the store,
\* at the send too unless a submission has been stored since the run
\* began.
C25_AllTasksPendingAndCounted ==
    /\ [](\A i \in 1..Len(tasks) : tasks[i]["status"] = "pending")
    /\ [][/\ Len(tasks') >= Len(tasks)
          /\ SubSeq(tasks', 1, Len(tasks)) = tasks
          /\ \A s \in Threads :
                Stepping(s, {"check_pending_tasks"}) =>
                    /\ (inv[s].pc = "run" /\ tasks # <<>>) =>
                          /\ inv'[s].pc = "send"
                          /\ inv'[s].loc["pending_tasks"] = tasks
                    /\ inv[s].pc = "send" =>
                          LET count == ReminderText(inv'[s].out)[2]
                          IN  /\ inv'[s].calls = 1
                              /\ inv'[s].out["op"] = "chat_postMessage"
                              /\ count =
                                    ToString(Len(inv[s].loc["pending_tasks"]))
                              /\ undisturbed[s] =>
                                    count = ToString(Len(tasks))
         ]_vars

\* the reminder job has run again, over the two tasks of the store, and
\* has made its send
C25_LaterRunReminded ==
    \E s \in Threads :
        /\ inv[s].kind = "check_pending_tasks"
        /\ inv[s].pc = "done"
        /\ inv[s].calls = 1
        /\ undisturbed[s]
        /\ Len(tasks) = 2
        /\ started >= 4
        /\ ReminderText(inv[s].out)[2] = "2"
====
